---- MODULE Spec2Model ----
(***************************************************************************)
(* Model of the wortex process registry.                                   *)
(*                                                                         *)
(* Two stores coexist in the repository: the flat file state.json guarded  *)
(* by an advisory lock (src/src/state.rs) and the SQLite database          *)
(* wortex.db (src/src/db.rs), which also migrates the legacy files.        *)
(* Every invocation of the program is a separate OS process; the model     *)
(* interleaves the invocations at the granularity of one SQL statement     *)
(* (autocommit: no handler opens a transaction) and of one file system     *)
(* call.                                                                   *)
(***************************************************************************)
EXTENDS Integers, Sequences, FiniteSets, Bags, TLC

----------------------------------------------------------------------------
(* Bounds of the model *)

NInv == 2           \* concurrently running invocations
MaxIds == 2         \* distinct process ids (UUIDs)
MaxOps == 3         \* operations started in one behaviour
MaxLegacyTools == 3 \* records of the legacy tools.db
MaxCalls == 2       \* tool calls stored before the first step
MaxStale == 3       \* entries of state.json when cleanup scans it
MaxCode == 2        \* largest exit code of a spawned command

Invs == 1..NInv
Ids == 1..MaxIds
Branches == {"a", "b"}
ExitCodes == {0, 1}

(* Option<T>: None is the empty sequence, Some(x) the singleton *)
None == <<>>
Some(x) == <<x>>

VARIABLES
    processes,      \* wortex.db, table processes: set of rows
    tool_calls,     \* wortex.db, table tool_calls: set of rows
    tc_autoinc,     \* wortex.db, AUTOINCREMENT counter of tool_calls.id
    entries,        \* state.json: the entry list of State
    has_state,      \* state.json exists
    torn,           \* state.json holds an incomplete prefix of the JSON of entries
    lock,           \* holder of the exclusive lock on state.lock, 0 if free
    has_lock_file,  \* state.lock exists
    legacy_tools,   \* legacy tools.db: session_id of its tool_calls, in id order
    has_tools,      \* tools.db exists
    state_bak,      \* state.json.bak: None, or Some(its entry list)
    tools_bak,      \* tools.db.bak: None, or Some(its records)
    migrations,     \* completed migrations ("Migration to wortex.db complete.")
    issued,         \* bag of the registry mutations issued so far
    next_id,        \* next fresh id handed out by Uuid::new_v4
    pc,             \* position of each invocation
    loc,            \* local variables of each invocation
    nops            \* operations started so far

dbvars == <<processes, tool_calls, tc_autoinc>>
filevars == <<entries, has_state, torn, lock, has_lock_file, next_id>>
legacyvars == <<legacy_tools, has_tools, state_bak, tools_bak, migrations>>
vars == <<processes, tool_calls, tc_autoinc, entries, has_state, torn, lock,
          has_lock_file, legacy_tools, has_tools, state_bak, tools_bak,
          migrations, issued, next_id, pc, loc, nops>>

----------------------------------------------------------------------------
(* Local variables of an invocation *)

NoLoc == [cmd |-> "none", op |-> "none", id |-> 0, code |-> None, seq |-> 0,
          removed |-> 0, res |-> "none", state |-> <<>>, entry |-> None,
          contended |-> FALSE, has_state |-> FALSE, has_tools |-> FALSE,
          prior |-> 0, count |-> 0, snapshot |-> <<>>, paths |-> {},
          windows |-> {}, dry_run |-> FALSE, stale |-> <<>>, next |-> 0,
          listed |-> <<>>, calls |-> <<>>, hook_type |-> None,
          limit |-> None, flag |-> None]

Start(i, op, id) == [NoLoc EXCEPT !.op = op, !.id = id]

Finish(i, result) == [loc EXCEPT ![i].res = result]

(* a registry mutation as issued by its caller *)
Issue(store, l) ==
    [store |-> store, op |-> l.op, id |-> l.id, code |-> l.code, entry |-> l.entry]

(* the observer of the issued mutations: the operation started by this step *)
Record(store, i) == issued' = issued (+) SetToBag({Issue(store, loc'[i])})

SetMax(S) == CHOOSE m \in S : \A x \in S : x <= m

----------------------------------------------------------------------------
(* The entity model and its stored form (src/src/state.rs, src/src/db.rs) *)

(* Command: Claude { prompt, agent: Option<String> } or Raw { cmd } *)
Claude(prompt, agent) == [type |-> "claude", prompt |-> prompt, agent |-> agent]
Raw(cmd) == [type |-> "raw", cmd |-> cmd]

(* ExitKill: Any, or Codes with its Vec<i32> *)
ExitKillAny == [kind |-> "any", codes |-> <<>>]
CodesOf(cs) == [kind |-> "codes", codes |-> cs]

(* DateTime<Utc>: the second and the nanoseconds within it *)
Time(sec, nanos) == [sec |-> sec, nanos |-> nanos]

(* Uuid::default() and DateTime::default(): the nil UUID and the epoch *)
NilUuid == 0
Epoch == Time(0, 0)

(* the Entry of tests::make_entry; a specification that leaves fields of
   an Entry out means these values *)
PlainEntry ==
    [project |-> "tp", path |-> <<97>>, tmux_session |-> "dev",
     tmux_window |-> "w", command |-> Claude("do work", None),
     exit_kill |-> None, exit_code |-> None, created_at |-> Time(1, 0)]

Full(e) == e @@ PlainEntry

(* serde_json::to_string(&entry.command), #[serde(tag = "type")]: an object
   with the keys of the variant; a key is None when the object lacks it,
   and the value of "agent" is None when it is null *)
CommandJson(c) ==
    IF c.type = "claude"
    THEN [type |-> "claude", prompt |-> Some(c.prompt), agent |-> c.agent,
          cmd |-> None]
    ELSE [type |-> "raw", prompt |-> None, agent |-> None, cmd |-> Some(c.cmd)]

(* serde_json::from_str::<Command>: an Err is None *)
ParseCommand(j) ==
    CASE j.type = "claude" /\ j.prompt # None ->
            Some(Claude(j.prompt[1], j.agent))
      [] j.type = "raw" /\ j.cmd # None -> Some(Raw(j.cmd[1]))
      [] OTHER -> None

(* serde_json::to_string(&exit_kill), rename_all = "snake_case": the string
   "any", or the object {"codes": [..]} *)
ExitKillJson(ek) ==
    IF ek.kind = "any"
    THEN [json |-> "string", name |-> "any", items |-> <<>>]
    ELSE [json |-> "object", name |-> "codes", items |-> ek.codes]

(* serde_json::from_str::<ExitKill>: an Err is None *)
ParseExitKill(j) ==
    CASE j.json = "string" /\ j.name = "any" -> Some(ExitKillAny)
      [] j.json = "object" /\ j.name = "codes" -> Some(CodesOf(j.items))
      [] OTHER -> None

(* entry.path.to_string_lossy(): a byte that is not UTF-8 becomes U+FFFD;
   a path is its bytes, a String its code points *)
ToStringLossy(path) ==
    [k \in DOMAIN path |-> IF path[k] < 128 THEN path[k] ELSE 65533]

(* PathBuf::from(directory): the UTF-8 bytes of the String *)
RECURSIVE PathFrom(_)
PathFrom(s) ==
    IF s = <<>> THEN <<>>
    ELSE (IF Head(s) < 128 THEN <<Head(s)>> ELSE <<239, 191, 189>>)
         \o PathFrom(Tail(s))

(* the digits of n, most significant first, in a field of width w *)
RECURSIVE Digits(_, _)
Digits(n, w) ==
    IF w = 0 THEN <<>> ELSE Append(Digits(n \div 10, w - 1), 48 + (n % 10))

(* to_rfc3339 of a DateTime<Utc>: the date and the time of day in a field
   of fixed width (here the one digit of the second), then the fraction
   with no, 3, 6 or 9 digits, then "+00:00" (here its "+"); a text is its
   code points *)
ToRfc3339(t) ==
    <<48 + t.sec>>
    \o (CASE t.nanos = 0 -> <<>>
          [] t.nanos # 0 /\ t.nanos % 1000000 = 0 ->
                <<46>> \o Digits(t.nanos \div 1000000, 3)
          [] t.nanos % 1000000 # 0 /\ t.nanos % 1000 = 0 ->
                <<46>> \o Digits(t.nanos \div 1000, 6)
          [] OTHER -> <<46>> \o Digits(t.nanos, 9))
    \o <<43>>

(* the instants of the model *)
Nanos == {0, 500000000, 500001000}
Times == {Time(sec, nanos) : sec \in 0..2, nanos \in Nanos}

(* DateTime::parse_from_rfc3339: an Err is None *)
ParseRfc3339(text) ==
    IF \E t \in Times : ToRfc3339(t) = text
    THEN Some(CHOOSE t \in Times : ToRfc3339(t) = text)
    ELSE None

(* the order of two TEXT values under the collation BINARY: memcmp, and
   the shorter of two texts with a common prefix first *)
RECURSIVE TextLess(_, _)
TextLess(a, b) ==
    IF b = <<>> THEN FALSE
    ELSE IF a = <<>> THEN TRUE
    ELSE IF Head(a) # Head(b) THEN Head(a) < Head(b)
    ELSE TextLess(Tail(a), Tail(b))

(* Uuid::parse_str of the text of the id column: the text of a UUID is
   held as the UUID, any other text as BadUuidText *)
BadUuidText == -1
ParseUuid(text) == IF text = BadUuidText THEN None ELSE Some(text)

----------------------------------------------------------------------------
(* wortex.db: schema and statements (src/src/db.rs) *)

(* PRAGMA foreign_keys = ON *)
ForeignKeysOff == FALSE
ForeignKeys == TRUE

(* a row of processes written from an Entry: the parameters of the INSERT
   of insert_process and of migrate_state_json; status is a column of its
   own; updated_at, which no query reads, is left out, and so are pid and
   blocked_on, which no statement writes *)
ProcessRow(e, status) ==
    LET f == Full(e) IN
    [id |-> f.id, name |-> f.branch, project |-> f.project,
     directory |-> ToStringLossy(f.path), branch |-> f.branch,
     tmux_session |-> f.tmux_session, tmux_window |-> f.tmux_window,
     status |-> status, exit_code |-> f.exit_code,
     command_json |-> CommandJson(f.command),
     exit_kill_json |-> IF f.exit_kill = None THEN None
                        ELSE Some(ExitKillJson(f.exit_kill[1])),
     prompt |-> IF f.command.type = "claude" THEN Some(f.command.prompt)
                ELSE None,
     created_at |-> ToRfc3339(f.created_at)]

(* id TEXT PRIMARY KEY, name TEXT UNIQUE NOT NULL *)
Conflicts(P, row) == {r \in P : r.id = row.id \/ r.name = row.name}

(* INSERT INTO processes: fails on a conflict *)
InsertReplace(P, row) == [ok |-> TRUE, rows |-> (P \ Conflicts(P, row)) \cup {row}]
InsertInto(P, row) ==
    IF Conflicts(P, row) # {}
    THEN [ok |-> FALSE, rows |-> P]
    ELSE [ok |-> TRUE, rows |-> P \cup {row}]

(* INSERT OR IGNORE INTO processes: skips the row on a conflict *)
InsertOrIgnore(P, row) ==
    IF Conflicts(P, row) # {} THEN P ELSE P \cup {row}

\* SELECT COUNT of the rows of processes WHERE id = ?1, as count > 0
ProcessExists(P, id) == \E r \in P : r.id = id

(* get_process_by_id *)
GetProcessById(P, id) ==
    IF \E r \in P : r.id = id
    THEN Some(CHOOSE r \in P : r.id = id)
    ELSE None

(* get_tool_calls_by_process: rows of the process, ORDER BY sequence ASC *)
ToolCallsOf(T, id) == {r \in T : r.process_id = id}

(* SELECT COALESCE(MAX(sequence), 0) + 1 FROM tool_calls WHERE process_id = ?1 *)
NextSeqAnyProcess(T, id) == SetMax({0} \cup {r.sequence : r \in T}) + 1
NextSeq(T, id) == SetMax({0} \cup {r.sequence : r \in ToolCallsOf(T, id)}) + 1

(* UPDATE processes SET exit_code = ?1, status = 'exited' WHERE id = ?3 *)
UpdateExitCode(P, id, code) ==
    {IF r.id = id THEN [r EXCEPT !.exit_code = Some(code), !.status = "exited"]
     ELSE r : r \in P}

(* row_to_entry: the Entry of a row. A text that does not parse is
   replaced: unwrap_or_default() for the id and created_at,
   unwrap_or(Command::Raw { cmd: String::new() }) for the command, and
   .ok() for exit_kill. *)
row_to_entry(r) ==
    [id |-> IF ParseUuid(r.id) = None THEN NilUuid ELSE ParseUuid(r.id)[1],
     project |-> r.project,
     branch |-> r.branch,
     path |-> PathFrom(r.directory),
     tmux_session |-> r.tmux_session,
     tmux_window |-> r.tmux_window,
     command |-> IF ParseCommand(r.command_json) = None THEN Raw("")
                 ELSE ParseCommand(r.command_json)[1],
     exit_kill |-> IF r.exit_kill_json = None THEN None
                   ELSE ParseExitKill(r.exit_kill_json[1]),
     exit_code |-> r.exit_code,
     created_at |-> IF ParseRfc3339(r.created_at) = None THEN Epoch
                    ELSE ParseRfc3339(r.created_at)[1]]

(* ORDER BY created_at ASC: r1 sorts strictly before r2 *)
OrderById(r1, r2) == r1.id < r2.id
OrderBy(r1, r2) == TextLess(r1.created_at, r2.created_at)

(* SELECT .. FROM processes ORDER BY created_at ASC: every row once; the
   order of rows with equal keys is not defined *)
RECURSIVE SelectAll(_)
SelectAll(P) ==
    IF P = {} THEN {<<>>}
    ELSE UNION {{<<r>> \o s : s \in SelectAll(P \ {r})} :
                   r \in {r1 \in P : \A r2 \in P : ~OrderBy(r2, r1)}}

(* the columns hook_type and timestamp of a row of tool_calls; a
   specification that leaves them out of its rows means these values *)
PlainCall == [hook_type |-> "pre", timestamp |-> ToRfc3339(Time(1, 0))]

(* row_to_tool_call: the ToolCall of a row; a process_id that is no UUID
   is replaced by the nil UUID and a timestamp that is no RFC 3339 time by
   the epoch *)
row_to_tool_call(r) ==
    LET f == r @@ PlainCall IN
    [f EXCEPT !.process_id = IF ParseUuid(f.process_id) = None THEN NilUuid
                             ELSE ParseUuid(f.process_id)[1],
              !.timestamp = IF ParseRfc3339(f.timestamp) = None THEN Epoch
                            ELSE ParseRfc3339(f.timestamp)[1]]

(* ORDER BY sequence ASC: r1 sorts strictly before r2 *)
NewestFirst(r1, r2) == r1.id > r2.id
OrderBySequence(r1, r2) == r1.sequence < r2.sequence

(* SELECT .. FROM tool_calls WHERE process_id = ?1 ORDER BY sequence ASC:
   every row of the process once; the order of rows with equal sequence is
   not defined *)
RECURSIVE SortedCalls(_)
SortedCalls(C) ==
    IF C = {} THEN {<<>>}
    ELSE UNION {{<<r>> \o s : s \in SortedCalls(C \ {r})} :
                   r \in {r1 \in C : \A r2 \in C : ~OrderBySequence(r2, r1)}}

SelectCalls(T, id) == SortedCalls(ToolCallsOf(T, id))

(* ORDER BY timestamp DESC: r1 sorts strictly before r2 *)
OldestFirst(r1, r2) == TextLess(r1.timestamp, r2.timestamp)
OrderByTimestampDesc(r1, r2) == TextLess(r2.timestamp, r1.timestamp)

(* SELECT .. FROM tool_calls ORDER BY timestamp DESC: every row once; the
   order of rows with equal timestamp is not defined *)
RECURSIVE SelectAllCalls(_)
SelectAllCalls(T) ==
    IF T = {} THEN {<<>>}
    ELSE UNION {{<<r>> \o s : s \in SelectAllCalls(T \ {r})} :
                   r \in {r1 \in T : \A r2 \in T :
                                        ~OrderByTimestampDesc(r2 @@ PlainCall,
                                                              r1 @@ PlainCall)}}

----------------------------------------------------------------------------
(* wortex.db: operations, one step per SQL statement *)

CanStart(i) == pc[i] = "idle" /\ nops < MaxOps

(* insert_process: a single INSERT *)
InsertProcess(i, e) ==
    /\ CanStart(i)
    /\ LET r == InsertInto(processes, ProcessRow(e, "spawned")) IN
         /\ processes' = r.rows
         /\ loc' = [loc EXCEPT ![i] = [Start(i, "insert_process", e.id)
                                        EXCEPT !.entry = Some(e),
                                               !.res = IF r.ok THEN "ok" ELSE "err"]]
    /\ nops' = nops + 1
    /\ UNCHANGED <<tool_calls, tc_autoinc, pc>>
    /\ UNCHANGED <<filevars, legacyvars>>

(* delete_process, first statement: DELETE FROM tool_calls WHERE process_id *)
DeleteToolCalls(i, id) ==
    /\ CanStart(i)
    /\ tool_calls' = tool_calls \ ToolCallsOf(tool_calls, id)
    /\ loc' = [loc EXCEPT ![i] = [Start(i, "delete_process", id)
                   EXCEPT !.removed = Cardinality(ToolCallsOf(tool_calls, id))]]
    /\ pc' = [pc EXCEPT ![i] = "delete_row"]
    /\ nops' = nops + 1
    /\ UNCHANGED <<processes, tc_autoinc>>
    /\ UNCHANGED <<filevars, legacyvars>>

(* the result of delete_process: the Err of a failed statement, else Ok(())
   whatever the number of rows the statements affected *)
DeleteOutcomeStrict(blocked, affected) ==
    IF blocked \/ ~affected THEN "err" ELSE "ok"
DeleteOutcome(blocked, affected) == IF blocked THEN "err" ELSE "ok"

(* delete_process, second statement: DELETE FROM processes WHERE id.
   With foreign keys on the statement fails while a tool call refers to
   the row. *)
DeleteProcessRow(i) ==
    /\ pc[i] = "delete_row"
    /\ LET id == loc[i].id
           blocked == /\ ForeignKeys
                      /\ ProcessExists(processes, id)
                      /\ ToolCallsOf(tool_calls, id) # {}
       IN
         /\ processes' = IF blocked THEN processes
                         ELSE {r \in processes : r.id # id}
         /\ loc' = Finish(i, DeleteOutcome(blocked, ProcessExists(processes, id)))
    /\ pc' = [pc EXCEPT ![i] = "idle"]
    /\ UNCHANGED <<tool_calls, tc_autoinc, nops>>
    /\ UNCHANGED <<filevars, legacyvars>>

(* set_exit_code: a single UPDATE; no row for the id changes nothing *)
SetExitCode(i, id, code) ==
    /\ CanStart(i)
    /\ processes' = UpdateExitCode(processes, id, code)
    /\ loc' = [loc EXCEPT ![i] = [Start(i, "set_exit_code", id)
                                   EXCEPT !.code = Some(code), !.res = "ok"]]
    /\ nops' = nops + 1
    /\ UNCHANGED <<tool_calls, tc_autoinc, pc>>
    /\ UNCHANGED <<filevars, legacyvars>>

(* insert_tool_call, first statement: the SELECT of the next sequence *)
ReadNextSeq(i, id) ==
    /\ CanStart(i)
    /\ loc' = [loc EXCEPT ![i] = [Start(i, "insert_tool_call", id)
                                   EXCEPT !.seq = NextSeq(tool_calls, id)]]
    /\ pc' = [pc EXCEPT ![i] = "insert_call"]
    /\ nops' = nops + 1
    /\ UNCHANGED <<dbvars, filevars, legacyvars>>

(* insert_tool_call, second statement: the INSERT.
   process_id REFERENCES processes(id): fails without the process row. *)
InsertToolCall(i) ==
    /\ pc[i] = "insert_call"
    /\ LET id == loc[i].id
           rejected == ForeignKeys /\ ~ProcessExists(processes, id)
       IN
         /\ tool_calls' = IF rejected THEN tool_calls
                          ELSE tool_calls \cup
                               {[id |-> tc_autoinc + 1, process_id |-> id,
                                 sequence |-> loc[i].seq, payload |-> 0]}
         /\ tc_autoinc' = IF rejected THEN tc_autoinc ELSE tc_autoinc + 1
         /\ loc' = Finish(i, IF rejected THEN "err" ELSE "ok")
    /\ pc' = [pc EXCEPT ![i] = "idle"]
    /\ UNCHANGED <<processes, nops>>
    /\ UNCHANGED <<filevars, legacyvars>>

(* get_process_by_id: the SELECT .. WHERE id = ?1 and row_to_entry of its
   first row; Ok(None) without a row *)
GetProcess(i, id) ==
    /\ CanStart(i)
    /\ loc' = [loc EXCEPT ![i] = [Start(i, "get_process_by_id", id)
                   EXCEPT !.entry = IF GetProcessById(processes, id) = None
                                    THEN None
                                    ELSE Some(row_to_entry(
                                            GetProcessById(processes, id)[1])),
                          !.res = "ok"]]
    /\ nops' = nops + 1
    /\ UNCHANGED <<dbvars, pc>>
    /\ UNCHANGED <<filevars, legacyvars>>

(* get_all_processes: row_to_entry of every row of the SELECT, in its order *)
GetAllProcesses(i) ==
    /\ CanStart(i)
    /\ \E s \in SelectAll(processes) :
          loc' = [loc EXCEPT ![i] = [Start(i, "get_all_processes", 0)
                     EXCEPT !.listed = [k \in DOMAIN s |-> row_to_entry(s[k])],
                            !.res = "ok"]]
    /\ nops' = nops + 1
    /\ UNCHANGED <<dbvars, pc>>
    /\ UNCHANGED <<filevars, legacyvars>>

(* get_tool_calls_by_process: row_to_tool_call of every row of the SELECT,
   in its order *)
GetToolCalls(i, id) ==
    /\ CanStart(i)
    /\ \E s \in SelectCalls(tool_calls, id) :
          loc' = [loc EXCEPT ![i] = [Start(i, "get_tool_calls_by_process", id)
                     EXCEPT !.calls = [k \in DOMAIN s |-> row_to_tool_call(s[k])],
                            !.res = "ok"]]
    /\ nops' = nops + 1
    /\ UNCHANGED <<dbvars, pc>>
    /\ UNCHANGED <<filevars, legacyvars>>

(* get_all_tool_calls: row_to_tool_call of every row of the SELECT, in its
   order *)
GetAllToolCalls(i) ==
    /\ CanStart(i)
    /\ \E s \in SelectAllCalls(tool_calls) :
          loc' = [loc EXCEPT ![i] = [Start(i, "get_all_tool_calls", 0)
                     EXCEPT !.calls = [k \in DOMAIN s |-> row_to_tool_call(s[k])],
                            !.res = "ok"]]
    /\ nops' = nops + 1
    /\ UNCHANGED <<dbvars, pc>>
    /\ UNCHANGED <<filevars, legacyvars>>

(* calls.retain(|c| c.hook_type == *hook_type) when a hook type is given *)
RetainHook(calls, hook_type) ==
    IF hook_type = None THEN calls
    ELSE SelectSeq(calls, LAMBDA c : c.hook_type = hook_type[1])

(* calls.truncate(limit) when a limit is given *)
TruncateCalls(calls, limit) ==
    IF limit = None \/ limit[1] >= Len(calls) THEN calls
    ELSE SubSeq(calls, 1, limit[1])

(* tools::execute without a branch: get_all_tool_calls, then the filter by
   hook type and the limit; the listing is what it prints *)
ToolsList(i, hook_type, limit) ==
    /\ CanStart(i)
    /\ \E s \in SelectAllCalls(tool_calls) :
          loc' = [loc EXCEPT ![i] = [Start(i, "get_all_tool_calls", 0)
                     EXCEPT !.cmd = "tools",
                            !.hook_type = hook_type,
                            !.limit = limit,
                            !.calls = TruncateCalls(
                                RetainHook([k \in DOMAIN s |->
                                               row_to_tool_call(s[k])],
                                           hook_type),
                                limit),
                            !.res = "ok"]]
    /\ nops' = nops + 1
    /\ UNCHANGED <<dbvars, pc>>
    /\ UNCHANGED <<filevars, legacyvars>>

----------------------------------------------------------------------------
(* state.json: the entity model and the registry functions (src/src/state.rs) *)

(* the policies of the registry specifications *)
ExitKills == {None, Some(ExitKillAny), Some(CodesOf(<<0>>))}

(* ExitKill::matches *)
MatchesFirstCode(ek, code) ==
    IF ek.kind = "any" THEN TRUE
    ELSE ek.codes # <<>> /\ ek.codes[1] = code
Matches(ek, code) ==
    IF ek.kind = "any" THEN TRUE
    ELSE \E k \in DOMAIN ek.codes : ek.codes[k] = code

(* run::execute: entry.exit_kill.as_ref().map(|ek| ek.matches(c)).unwrap_or(false) *)
ShouldKillOrDefault(entry, code) ==
    IF entry.exit_kill = None THEN TRUE ELSE Matches(entry.exit_kill[1], code)
ShouldKill(entry, code) ==
    IF entry.exit_kill = None THEN FALSE ELSE Matches(entry.exit_kill[1], code)

(* the Entry built by new::execute: exit_code is None *)
NewEntry(id, branch, ek) ==
    [id |-> id, branch |-> branch, exit_kill |-> ek, exit_code |-> None]

(* add_entry: state.entries.push(entry) *)
PushEntry(es, e) == Append(es, e)

(* remove_entry: state.entries.retain(|e| e.id != id) *)
RetainOthers(es, id) == SelectSeq(es, LAMBDA e : e.id # id)

(* update_exit_code: the first entry with the id gets exit_code = Some(code) *)
FirstIndex(es, id) ==
    IF \E k \in DOMAIN es : es[k].id = id
    THEN CHOOSE k \in DOMAIN es :
            es[k].id = id /\ \A j \in 1..(k - 1) : es[j].id # id
    ELSE 0

AssignOrCreate(es, id, code) ==
    IF FirstIndex(es, id) = 0
    THEN Append(es, [NewEntry(id, "a", None) EXCEPT !.exit_code = Some(code)])
    ELSE [es EXCEPT ![FirstIndex(es, id)].exit_code = Some(code)]
AssignExitCode(es, id, code) ==
    IF FirstIndex(es, id) = 0 THEN es
    ELSE [es EXCEPT ![FirstIndex(es, id)].exit_code = Some(code)]

(* find_by_id: the first entry with the id *)
FindById(es, id) ==
    IF FirstIndex(es, id) = 0 THEN None ELSE Some(es[FirstIndex(es, id)])

(* load: State::default() when state.json does not exist *)
LoadState == IF has_state THEN entries ELSE <<>>

(* load: serde_json::from_str(&content)? on an incomplete file is an Err *)
LoadFails == has_state /\ torn

(* lock_exclusive returns once no other invocation holds the lock *)
LockIgnored == TRUE
LockAvailable == lock = 0

(* the closure run under with_state_lock, applied to the loaded state *)
Mutate(es, l) ==
    CASE l.op = "add_entry" -> PushEntry(es, l.entry[1])
      [] l.op = "remove_entry" -> RetainOthers(es, l.id)
      [] l.op = "update_exit_code" -> AssignExitCode(es, l.id, l.code[1])
      [] OTHER -> es

----------------------------------------------------------------------------
(* state.json: operations, one step per lock or file system call *)

(* with_state_lock: File::create(lock_path), then wait for the lock *)
EnterLock(i, l) ==
    /\ loc' = [loc EXCEPT ![i] = [l EXCEPT !.contended = (lock # 0)]]
    /\ pc' = [pc EXCEPT ![i] = "lock"]
    /\ has_lock_file' = TRUE

(* new::execute, at state::add_entry(entry) with its fresh Uuid::new_v4 *)
AddEntry(i, branch, ek) ==
    /\ CanStart(i)
    /\ next_id <= MaxIds
    /\ EnterLock(i, [Start(i, "add_entry", next_id)
                      EXCEPT !.entry = Some(NewEntry(next_id, branch, ek))])
    /\ next_id' = next_id + 1
    /\ nops' = nops + 1
    /\ UNCHANGED <<entries, has_state, torn, lock>>
    /\ UNCHANGED <<dbvars, legacyvars>>

(* remove_entry(id) *)
RemoveEntry(i, id) ==
    /\ CanStart(i)
    /\ EnterLock(i, Start(i, "remove_entry", id))
    /\ nops' = nops + 1
    /\ UNCHANGED <<entries, has_state, torn, lock, next_id>>
    /\ UNCHANGED <<dbvars, legacyvars>>

(* update_exit_code(id, code) *)
UpdateExit(i, id, code) ==
    /\ CanStart(i)
    /\ EnterLock(i, [Start(i, "update_exit_code", id) EXCEPT !.code = Some(code)])
    /\ nops' = nops + 1
    /\ UNCHANGED <<entries, has_state, torn, lock, next_id>>
    /\ UNCHANGED <<dbvars, legacyvars>>

(* lock_file.lock_exclusive() *)
AcquireLock(i) ==
    /\ pc[i] = "lock"
    /\ LockAvailable
    /\ lock' = i
    /\ pc' = [pc EXCEPT ![i] = "load"]
    /\ UNCHANGED <<entries, has_state, torn, has_lock_file, next_id, loc, nops>>
    /\ UNCHANGED <<dbvars, legacyvars>>

(* the lock when with_state_lock returns the Err of its closure: lock_file
   is dropped, which closes the file and releases the lock *)
LockLeaked(holder) == holder
LockAfterErr(holder) == 0

(* load() inside the closure; its Err ends with_state_lock, which drops
   the lock file *)
Load(i) ==
    /\ pc[i] = "load"
    /\ IF LoadFails
       THEN /\ loc' = Finish(i, "load_err")
            /\ pc' = [pc EXCEPT ![i] = "idle"]
            /\ lock' = LockAfterErr(lock)
       ELSE /\ loc' = [loc EXCEPT ![i].state = LoadState]
            /\ pc' = [pc EXCEPT ![i] = "save"]
            /\ UNCHANGED lock
    /\ UNCHANGED <<entries, has_state, torn, has_lock_file, next_id, nops>>
    /\ UNCHANGED <<dbvars, legacyvars>>

(* the mutation of the loaded state and save() up to the open of fs::write,
   which creates or truncates state.json: the file is incomplete until the
   content has been written *)
Truncate(i) ==
    /\ pc[i] = "save"
    /\ entries' = Mutate(loc[i].state, loc[i])
    /\ has_state' = TRUE
    /\ torn' = TRUE
    /\ loc' = [loc EXCEPT ![i].state = <<>>]
    /\ pc' = [pc EXCEPT ![i] = "write"]
    /\ UNCHANGED <<lock, has_lock_file, next_id, nops>>
    /\ UNCHANGED <<dbvars, legacyvars>>

(* the write of the content by fs::write, the return of the closure and the
   drop of the lock file; cleanup::execute goes on with its loop over the
   stale entries, new::execute with the hooks and the window *)
Save(i) ==
    /\ pc[i] = "write"
    /\ torn' = FALSE
    /\ lock' = 0
    /\ loc' = [loc EXCEPT ![i].res = IF loc[i].cmd \in {"cleanup", "new"}
                                     THEN loc[i].res ELSE "ok"]
    /\ pc' = [pc EXCEPT ![i] = CASE loc[i].cmd = "cleanup" -> "cleanup_remove"
                                 [] loc[i].cmd = "new" -> "new_window"
                                 [] OTHER -> "idle"]
    /\ UNCHANGED <<entries, has_state, has_lock_file, next_id, nops>>
    /\ UNCHANGED <<dbvars, legacyvars>>

(* the invocation is terminated (SIGKILL, power loss) at whatever point it
   has reached; the kernel releases its lock *)
Crash(i) ==
    /\ pc[i] # "idle"
    /\ pc' = [pc EXCEPT ![i] = "idle"]
    /\ loc' = Finish(i, "killed")
    /\ lock' = IF lock = i THEN 0 ELSE lock
    /\ UNCHANGED <<entries, has_state, torn, has_lock_file, next_id, nops>>
    /\ UNCHANGED <<dbvars, legacyvars>>

(* run::execute up to the spawn: find_by_id without the lock *)
RunStart(i, id) ==
    /\ CanStart(i)
    /\ LET found == IF LoadFails THEN None ELSE FindById(LoadState, id) IN
         /\ loc' = [loc EXCEPT ![i] = [Start(i, "none", id)
                        EXCEPT !.cmd = "run", !.entry = found,
                               !.res = IF LoadFails THEN "load_err"
                                       ELSE IF found = None THEN "err"
                                       ELSE "none"]]
         /\ pc' = [pc EXCEPT ![i] = IF found = None THEN "idle" ELSE "running"]
    /\ nops' = nops + 1
    /\ UNCHANGED <<filevars>>
    /\ UNCHANGED <<dbvars, legacyvars>>

(* run::execute when the spawned command terminates with exit code c *)
RunExit(i, c) ==
    /\ pc[i] = "running"
    /\ EnterLock(i, [loc[i] EXCEPT
                        !.op = IF ShouldKill(loc[i].entry[1], c)
                               THEN "remove_entry" ELSE "update_exit_code",
                        !.code = Some(c)])
    /\ UNCHANGED <<entries, has_state, torn, lock, next_id, nops>>
    /\ UNCHANGED <<dbvars, legacyvars>>

----------------------------------------------------------------------------
(* kill (src/src/commands/kill.rs) *)

(* find_by_branch: the first entry with the branch *)
FindByBranch(es, branch) ==
    IF \E k \in DOMAIN es : es[k].branch = branch
    THEN Some(es[CHOOSE k \in DOMAIN es :
                    es[k].branch = branch
                    /\ \A j \in 1..(k - 1) : es[j].branch # branch])
    ELSE None

(* kill::execute up to its teardown: find_by_branch without the lock,
   EntryNotFound when no entry has the branch *)
Kill(i, branch) ==
    /\ CanStart(i)
    /\ LET found == IF LoadFails THEN None ELSE FindByBranch(LoadState, branch) IN
         /\ loc' = [loc EXCEPT ![i] = [Start(i, "none",
                                             IF found = None THEN 0 ELSE found[1].id)
                        EXCEPT !.cmd = "kill", !.entry = found,
                               !.res = IF LoadFails THEN "load_err"
                                       ELSE IF found = None THEN "err"
                                       ELSE "none"]]
         /\ pc' = [pc EXCEPT ![i] = IF found = None THEN "idle" ELSE "killing"]
    /\ nops' = nops + 1
    /\ UNCHANGED <<filevars>>
    /\ UNCHANGED <<dbvars, legacyvars>>

(* the ? after window_exists, kill_window, remove_worktree, branch_exists
   and delete_branch: state::remove_entry is reached only when none of them
   returned an Err *)
RemoveAnyway(torn_down) == TRUE
RemoveAfter(torn_down) == torn_down

(* kill::execute from the window to the registry: the window, the worktree
   and the branch are removed, the Err of any of these steps is returned;
   else state::remove_entry(entry.id) *)
KillRemove(i, torn_down) ==
    /\ pc[i] = "killing"
    /\ IF RemoveAfter(torn_down)
       THEN EnterLock(i, [loc[i] EXCEPT !.op = "remove_entry"])
       ELSE /\ loc' = Finish(i, "err")
            /\ pc' = [pc EXCEPT ![i] = "idle"]
            /\ UNCHANGED has_lock_file
    /\ UNCHANGED <<entries, has_state, torn, lock, next_id, nops>>
    /\ UNCHANGED <<dbvars, legacyvars>>

----------------------------------------------------------------------------
(* new (src/src/cli.rs, src/src/commands/new.rs) *)

(* the value of --exit-kill: None without the flag, Some(None) for the flag
   without a value, Some(Some(s)) for the flag with the text s; a text is
   the sequence of its pieces between commas *)
ParseI32(piece) ==
    CASE piece = "0" -> Some(0)
      [] piece = "1" -> Some(1)
      [] piece = "2" -> Some(2)
      [] OTHER -> None

ToLowercase(piece) == IF piece \in {"ANY", "Any"} THEN "any" ELSE piece

(* s.split(',').filter_map(|c| c.trim().parse().ok()).collect() *)
RECURSIVE ParsedCodes(_)
ParsedCodes(pieces) ==
    IF pieces = <<>> THEN <<>>
    ELSE (IF ParseI32(Head(pieces)) = None THEN <<>>
          ELSE <<ParseI32(Head(pieces))[1]>>)
         \o ParsedCodes(Tail(pieces))

ArgDefault == [arg |-> "default", codes |-> <<>>]
ArgAny == [arg |-> "any", codes |-> <<>>]
ArgCodes(codes) == [arg |-> "codes", codes |-> codes]

(* ExitKillArg::parse *)
ExitKillArgParse(value) ==
    CASE value = None -> None
      [] value # None /\ value[1] = None -> Some(ArgDefault)
      [] OTHER ->
            LET s == value[1][1] IN
            IF Len(s) = 1 /\ ToLowercase(s[1]) = "any" THEN Some(ArgAny)
            ELSE IF ParsedCodes(s) = <<>> THEN Some(ArgDefault)
            ELSE Some(ArgCodes(ParsedCodes(s)))

(* ExitKillArg::Default => ExitKill::Codes(vec![0]) *)
DefaultAsAny == ExitKillAny
DefaultPolicy == CodesOf(<<0>>)

(* args.exit_kill.map(|ek| match ek { .. }) *)
ExitKillOf(arg) ==
    IF arg = None THEN None
    ELSE Some(CASE arg[1].arg = "default" -> DefaultPolicy
                [] arg[1].arg = "any" -> ExitKillAny
                [] OTHER -> CodesOf(arg[1].codes))

(* the result of the check of the registry for the branch *)
BranchCheckSkipped(found) == "none"
BranchCheck(found) == IF found = None THEN "none" ELSE "entry_exists"

(* new::execute up to the check of the registry: the validations of the
   arguments, of tmux and of git, any of which may return an Err, then
   find_by_branch without the lock, EntryExists when an entry has the
   branch *)
New(i, branch, value, valid) ==
    /\ CanStart(i)
    /\ LET found == IF LoadFails THEN None ELSE FindByBranch(LoadState, branch)
           res == IF ~valid THEN "err"
                  ELSE IF LoadFails THEN "load_err"
                  ELSE BranchCheck(found)
       IN
         /\ loc' = [loc EXCEPT ![i] = [Start(i, "none", 0)
                        EXCEPT !.cmd = "new", !.flag = value,
                               !.entry = Some(NewEntry(NilUuid, branch,
                                             ExitKillOf(ExitKillArgParse(value)))),
                               !.res = res]]
         /\ pc' = [pc EXCEPT ![i] = IF res = "none" THEN "new_worktree"
                                    ELSE "idle"]
    /\ nops' = nops + 1
    /\ UNCHANGED <<filevars>>
    /\ UNCHANGED <<dbvars, legacyvars>>

(* new::execute from the directory check to state::add_entry(entry): the
   Err of the check, of the fetch or of git worktree add is returned; else
   the Entry gets its Uuid::new_v4 and is added *)
NewAdd(i, created) ==
    /\ pc[i] = "new_worktree"
    /\ IF created
       THEN /\ next_id <= MaxIds
            /\ EnterLock(i, [loc[i] EXCEPT !.op = "add_entry", !.id = next_id,
                                           !.entry[1].id = next_id])
            /\ next_id' = next_id + 1
       ELSE /\ loc' = Finish(i, "err")
            /\ pc' = [pc EXCEPT ![i] = "idle"]
            /\ UNCHANGED <<has_lock_file, next_id>>
    /\ UNCHANGED <<entries, has_state, torn, lock, nops>>
    /\ UNCHANGED <<dbvars, legacyvars>>

(* new::execute after add_entry: the hooks configuration and
   tmux::create_window with the command __run <id>; its Err is returned *)
NewWindow(i, created) ==
    /\ pc[i] = "new_window"
    /\ loc' = Finish(i, IF created THEN "ok" ELSE "window_err")
    /\ pc' = [pc EXCEPT ![i] = "idle"]
    /\ UNCHANGED <<filevars, nops>>
    /\ UNCHANGED <<dbvars, legacyvars>>

(* the window created by the invocation j of new runs __run <id>:
   run::execute of the id of its Entry *)
WindowRun(i, j) ==
    /\ loc[j].cmd = "new"
    /\ loc[j].res = "ok"
    /\ pc[j] = "idle"
    /\ RunStart(i, loc[j].entry[1].id)

----------------------------------------------------------------------------
(* cleanup (src/src/commands/cleanup.rs) *)

(* the closures handed to find_stale_entries by cleanup::execute and by its
   tests: the directories and the tmux windows that exist, by entry *)
PathExists(e, paths) == e.id \in paths
WindowExists(e, windows) == e.id \in windows

(* the reasons pushed for one entry, in the order of the three ifs *)
ReasonsWindowFirst(e, seen, paths, windows) ==
    (IF ~WindowExists(e, windows) THEN <<"window missing">> ELSE <<>>)
    \o (IF ~PathExists(e, paths) THEN <<"worktree missing">> ELSE <<>>)
    \o (IF e.branch \in seen THEN <<"duplicate branch">> ELSE <<>>)
Reasons(e, seen, paths, windows) ==
    (IF ~PathExists(e, paths) THEN <<"worktree missing">> ELSE <<>>)
    \o (IF ~WindowExists(e, windows) THEN <<"window missing">> ELSE <<>>)
    \o (IF e.branch \in seen THEN <<"duplicate branch">> ELSE <<>>)

(* seen_branches.insert(&entry.branch), at the end of every iteration *)
SeenInsertIfKept(seen, e, reasons) ==
    IF reasons = <<>> THEN seen \cup {e.branch} ELSE seen
SeenInsert(seen, e, reasons) == seen \cup {e.branch}

(* StaleEntry { id, branch, reasons } *)
StaleEntry(e, reasons) == [id |-> e.id, branch |-> e.branch, reasons |-> reasons]

(* the loop of find_stale_entries from entry k on *)
RECURSIVE StaleLoop(_, _, _, _, _, _)
StaleLoop(es, k, seen, stale_entries, paths, windows) ==
    IF k > Len(es) THEN stale_entries
    ELSE LET reasons == Reasons(es[k], seen, paths, windows) IN
         StaleLoop(es, k + 1, SeenInsert(seen, es[k], reasons),
                   IF reasons # <<>>
                   THEN Append(stale_entries, StaleEntry(es[k], reasons))
                   ELSE stale_entries,
                   paths, windows)

find_stale_entries(es, paths, windows) == StaleLoop(es, 1, {}, <<>>, paths, windows)

(* if dry_run { println!(..) } else { the removals }: the flagged entries
   are only reported *)
DryRunIgnored(dry_run) == FALSE
ReportOnly(dry_run) == dry_run

(* cleanup::execute up to its loop: load without the lock (its Err is
   returned), the scan, and the return when nothing is stale or on a dry
   run *)
Cleanup(i, paths, windows, dry_run) ==
    /\ CanStart(i)
    /\ LET state == IF LoadFails THEN <<>> ELSE LoadState
           stale_entries == find_stale_entries(state, paths, windows)
           done == LoadFails \/ stale_entries = <<>> \/ ReportOnly(dry_run)
       IN
         /\ loc' = [loc EXCEPT ![i] = [Start(i, "none", 0)
                        EXCEPT !.cmd = "cleanup", !.snapshot = state,
                               !.paths = paths, !.windows = windows,
                               !.dry_run = dry_run, !.stale = stale_entries,
                               !.next = 1,
                               !.res = IF LoadFails THEN "load_err"
                                       ELSE IF done THEN "ok" ELSE "none"]]
         /\ pc' = [pc EXCEPT ![i] = IF done THEN "idle" ELSE "cleanup_remove"]
    /\ nops' = nops + 1
    /\ UNCHANGED <<filevars>>
    /\ UNCHANGED <<dbvars, legacyvars>>

(* for entry in stale_entries { state::remove_entry(entry.id)? } *)
CleanupRemove(i) ==
    /\ pc[i] = "cleanup_remove"
    /\ IF loc[i].next > Len(loc[i].stale)
       THEN /\ loc' = Finish(i, "ok")
            /\ pc' = [pc EXCEPT ![i] = "idle"]
            /\ UNCHANGED has_lock_file
       ELSE EnterLock(i, [loc[i] EXCEPT !.op = "remove_entry",
                                       !.id = loc[i].stale[loc[i].next].id,
                                       !.next = loc[i].next + 1])
    /\ UNCHANGED <<entries, has_state, torn, lock, next_id, nops>>
    /\ UNCHANGED <<dbvars, legacyvars>>

----------------------------------------------------------------------------
(* Migration of the legacy files (src/src/db.rs, migrate_if_needed) *)

(* migrate_state_json: status from the legacy exit code, INSERT OR IGNORE *)
LegacyStatus(e) == IF e.exit_code # None THEN "exited" ELSE "spawned"

RECURSIVE MigrateEntries(_, _)
MigrateEntries(P, es) ==
    IF es = <<>> THEN P
    ELSE MigrateEntries(
            InsertOrIgnore(P, ProcessRow(Head(es), LegacyStatus(Head(es)))),
            Tail(es))

(* migrate_tools_db: the loop over the legacy rows, ORDER BY id ASC.
   acc holds the tool_calls table, its AUTOINCREMENT counter and seq_map;
   the payload of a row stands for the columns copied verbatim and is the
   legacy row id. *)
RECURSIVE MigrateRowsOneCounter(_, _, _, _)
MigrateRowsOneCounter(P, rows, k, acc) ==
    IF k > Len(rows) THEN acc
    ELSE IF ~ProcessExists(P, rows[k]) THEN MigrateRowsOneCounter(P, rows, k + 1, acc)
    ELSE LET seq == acc.seq_map[0] + 1 IN
         MigrateRowsOneCounter(P, rows, k + 1,
            [calls |-> acc.calls \cup
                        {[id |-> acc.autoinc + 1, process_id |-> rows[k],
                          sequence |-> seq, payload |-> k]},
             autoinc |-> acc.autoinc + 1,
             seq_map |-> [acc.seq_map EXCEPT ![0] = seq]])

RECURSIVE MigrateRows(_, _, _, _)
MigrateRows(P, rows, k, acc) ==
    IF k > Len(rows) THEN acc
    ELSE IF ~ProcessExists(P, rows[k]) THEN MigrateRows(P, rows, k + 1, acc)
    ELSE LET seq == acc.seq_map[rows[k]] + 1 IN
         MigrateRows(P, rows, k + 1,
            [calls |-> acc.calls \cup
                        {[id |-> acc.autoinc + 1, process_id |-> rows[k],
                          sequence |-> seq, payload |-> k]},
             autoinc |-> acc.autoinc + 1,
             seq_map |-> [acc.seq_map EXCEPT ![rows[k]] = seq]])

SessionIds == 0..MaxIds

(* std::fs::rename(path, backup) of a file held as an Option of its content *)
Copied(file, bak) == [file |-> file, bak |-> file]
Removed(file, bak) == [file |-> None, bak |-> bak]
Renamed(file, bak) == [file |-> None, bak |-> file]

(* the two early returns of migrate_if_needed: no legacy file, or count > 0 *)
MigrationNeededAnyCount(hs, ht, count) == hs \/ ht
MigrationNeeded(hs, ht, count) == (hs \/ ht) /\ ~(count > 0)

(* open_and_init up to the guards of migrate_if_needed *)
MigrateBegin(i) ==
    /\ CanStart(i)
    /\ LET count == Cardinality(processes)
           needed == MigrationNeeded(has_state, has_tools, count)
       IN
         /\ loc' = [loc EXCEPT ![i] = [Start(i, "open", 0)
                        EXCEPT !.cmd = "open", !.has_state = has_state,
                               !.has_tools = has_tools, !.prior = migrations,
                               !.count = count,
                               !.res = IF needed THEN "none" ELSE "ok"]]
         /\ pc' = [pc EXCEPT ![i] = IF needed THEN "mig_state" ELSE "idle"]
    /\ nops' = nops + 1
    /\ UNCHANGED <<dbvars, filevars, legacyvars>>

(* if has_state { migrate_state_json(conn, &state_path)? }: the Err of
   read_to_string on a file that is gone, or of serde_json::from_str on an
   incomplete file, ends the migration *)
MigrateStateJson(i) ==
    /\ pc[i] = "mig_state"
    /\ IF loc[i].has_state /\ (~has_state \/ LoadFails)
       THEN /\ loc' = Finish(i, IF has_state THEN "load_err" ELSE "err")
            /\ pc' = [pc EXCEPT ![i] = "idle"]
            /\ UNCHANGED processes
       ELSE /\ processes' = IF loc[i].has_state
                            THEN MigrateEntries(processes, entries) ELSE processes
            /\ pc' = [pc EXCEPT ![i] = "mig_tools"]
            /\ UNCHANGED loc
    /\ UNCHANGED <<tool_calls, tc_autoinc, nops>>
    /\ UNCHANGED <<filevars, legacyvars>>

(* a record of tools.db with a NULL in a column read as String: the
   row.get of query_map is an Err *)
MalformedRow == -1

FirstMalformed(rows) ==
    IF \E k \in DOMAIN rows : rows[k] = MalformedRow
    THEN CHOOSE k \in DOMAIN rows :
            rows[k] = MalformedRow /\ \A j \in 1..(k - 1) : rows[j] # MalformedRow
    ELSE 0

(* the rows the loop of migrate_tools_db handles before row.map_err(..)?
   returns the Err *)
ReadableRows(rows) ==
    IF FirstMalformed(rows) = 0 THEN rows
    ELSE SubSeq(rows, 1, FirstMalformed(rows) - 1)

(* migrate_tools_db(conn, &tools_path)?: the Err ends migrate_if_needed *)
AfterToolsDbIgnoringErr(failed) == "backup"
AfterToolsDb(failed) == IF failed THEN "idle" ELSE "backup"

(* if has_tools { migrate_tools_db(conn, &tools_path)? }: every INSERT of
   the loop is committed on its own, also those before a failure *)
MigrateToolsDb(i) ==
    /\ pc[i] = "mig_tools"
    /\ LET failed == loc[i].has_tools /\ FirstMalformed(legacy_tools) # 0
           r == MigrateRows(processes, ReadableRows(legacy_tools), 1,
                    [calls |-> tool_calls, autoinc |-> tc_autoinc,
                     seq_map |-> [s \in SessionIds |-> 0]])
       IN
         /\ tool_calls' = IF loc[i].has_tools THEN r.calls ELSE tool_calls
         /\ tc_autoinc' = IF loc[i].has_tools THEN r.autoinc ELSE tc_autoinc
         /\ pc' = [pc EXCEPT ![i] = AfterToolsDb(failed)]
         /\ loc' = IF failed THEN Finish(i, "err") ELSE loc
    /\ UNCHANGED <<processes, nops>>
    /\ UNCHANGED <<filevars, legacyvars>>

(* the renames to .bak and the removal of state.lock; a rename of a file
   that is gone fails *)
BackupLegacy(i) ==
    /\ pc[i] = "backup"
    /\ LET gone == \/ loc[i].has_state /\ ~has_state
                   \/ loc[i].has_tools /\ ~has_tools
           st == Renamed(Some(entries), state_bak)
           tl == Renamed(Some(legacy_tools), tools_bak)
       IN
         IF gone
         THEN /\ loc' = Finish(i, "err")
              /\ pc' = [pc EXCEPT ![i] = "idle"]
              /\ UNCHANGED <<entries, has_state, has_lock_file, legacy_tools,
                             has_tools, state_bak, tools_bak>>
         ELSE /\ has_state' = IF loc[i].has_state THEN st.file # None ELSE has_state
              /\ entries' = IF loc[i].has_state /\ st.file = None THEN <<>> ELSE entries
              /\ state_bak' = IF loc[i].has_state THEN st.bak ELSE state_bak
              /\ has_tools' = IF loc[i].has_tools THEN tl.file # None ELSE has_tools
              /\ legacy_tools' = IF loc[i].has_tools /\ tl.file = None
                                 THEN <<>> ELSE legacy_tools
              /\ tools_bak' = IF loc[i].has_tools THEN tl.bak ELSE tools_bak
              /\ has_lock_file' = FALSE
              /\ pc' = [pc EXCEPT ![i] = "complete"]
              /\ UNCHANGED loc
    /\ UNCHANGED <<lock, torn, next_id, migrations, nops>>
    /\ UNCHANGED dbvars

(* "Migration to wortex.db complete." and Ok(conn) *)
MigrateDone(i) ==
    /\ pc[i] = "complete"
    /\ migrations' = migrations + 1
    /\ loc' = Finish(i, "ok")
    /\ pc' = [pc EXCEPT ![i] = "idle"]
    /\ UNCHANGED <<legacy_tools, has_tools, state_bak, tools_bak, nops>>
    /\ UNCHANGED <<dbvars, filevars>>

----------------------------------------------------------------------------
(* Next-state relations *)

(* the Entry values handed to insert_process *)
RegEntries == [id : Ids, branch : Branches, exit_code : {None}]

(* wortex.db with its tool calls under concurrent invocations *)
NextDb ==
    /\ \E i \in Invs :
        \/ \E e \in RegEntries : InsertProcess(i, e)
        \/ \E id \in Ids : DeleteToolCalls(i, id)
        \/ DeleteProcessRow(i)
        \/ \E id \in Ids : ReadNextSeq(i, id)
        \/ InsertToolCall(i)
    /\ UNCHANGED issued

(* both registries under concurrent invocations, with run *)
NextReg ==
    /\ \E i \in Invs :
        \/ \E b \in Branches, ek \in ExitKills : AddEntry(i, b, ek)
        \/ \E id \in Ids : RemoveEntry(i, id)
        \/ \E id \in Ids, c \in ExitCodes : UpdateExit(i, id, c)
        \/ AcquireLock(i)
        \/ Load(i)
        \/ Truncate(i)
        \/ Save(i)
        \/ \E id \in Ids : RunStart(i, id)
        \/ \E c \in ExitCodes : RunExit(i, c)
        \/ \E e \in RegEntries : InsertProcess(i, e)
        \/ \E id \in Ids : DeleteToolCalls(i, id)
        \/ DeleteProcessRow(i)
        \/ \E id \in Ids, c \in ExitCodes : SetExitCode(i, id, c)
    /\ UNCHANGED issued

(* the registry mutations under concurrent invocations, each recorded in
   issued when it starts *)
NextLin ==
    \E i \in Invs :
        \/ /\ \/ \E b \in Branches : AddEntry(i, b, None)
              \/ \E id \in Ids : RemoveEntry(i, id)
              \/ \E id \in Ids : UpdateExit(i, id, 0)
           /\ Record("file", i)
        \/ /\ \/ AcquireLock(i)
              \/ Load(i)
              \/ Truncate(i)
              \/ Save(i)
              \/ DeleteProcessRow(i)
           /\ UNCHANGED issued
        \/ /\ \/ \E id \in Ids, b \in Branches :
                    InsertProcess(i, [id |-> id, branch |-> b, exit_code |-> None])
              \/ \E id \in Ids : DeleteToolCalls(i, id)
              \/ \E id \in Ids : SetExitCode(i, id, 0)
           /\ Record("db", i)

(* the invocations run one after another *)
Sequential == \A j \in Invs : pc[j] = "idle"

(* open_and_init with legacy files on disk, the invocations running one
   after another, and delete_process between them *)
NextMig ==
    /\ \E i \in Invs :
        \/ Sequential /\ MigrateBegin(i)
        \/ MigrateStateJson(i)
        \/ MigrateToolsDb(i)
        \/ BackupLegacy(i)
        \/ MigrateDone(i)
        \/ \E id \in Ids : Sequential /\ DeleteToolCalls(i, id)
        \/ DeleteProcessRow(i)
    /\ UNCHANGED issued

----------------------------------------------------------------------------
(* Initial states *)

(* an empty database after init_schema, no files *)

Init ==
    /\ processes = {}
    /\ tool_calls = {}
    /\ tc_autoinc = 0
    /\ entries = <<>>
    /\ has_state = FALSE
    /\ torn = FALSE
    /\ lock = 0
    /\ has_lock_file = FALSE
    /\ legacy_tools = <<>>
    /\ has_tools = FALSE
    /\ state_bak = None
    /\ tools_bak = None
    /\ migrations = 0
    /\ issued = EmptyBag
    /\ next_id = 1
    /\ pc = [i \in Invs |-> "idle"]
    /\ loc = [i \in Invs |-> NoLoc]
    /\ nops = 0

(* Initial state of wortex.db in use: empty, or Process 1 with the tool
   calls 1..n that n calls of insert_tool_call have stored *)
InitDb ==
    /\ \E n \in 0..MaxCalls, present \in BOOLEAN :
          /\ processes = IF present
                         THEN {ProcessRow([id |-> 1, branch |-> "a", exit_code |-> None],
                                          "spawned")}
                         ELSE {}
          /\ tool_calls = IF present
                          THEN {[id |-> k, process_id |-> 1, sequence |-> k,
                                 payload |-> 0] : k \in 1..n}
                          ELSE {}
          /\ tc_autoinc = IF present THEN n ELSE 0
    /\ entries = <<>>
    /\ has_state = FALSE
    /\ torn = FALSE
    /\ lock = 0
    /\ has_lock_file = FALSE
    /\ legacy_tools = <<>>
    /\ has_tools = FALSE
    /\ state_bak = None
    /\ tools_bak = None
    /\ migrations = 0
    /\ issued = EmptyBag
    /\ next_id = 1
    /\ pc = [i \in Invs |-> "idle"]
    /\ loc = [i \in Invs |-> NoLoc]
    /\ nops = 0

(* the legacy state.json: entries with distinct ids, as new::execute
   numbers them, and any branches *)
RECURSIVE LegacyLists(_)
LegacyLists(n) ==
    IF n = 0 THEN {<<>>}
    ELSE LET shorter == LegacyLists(n - 1) IN
         shorter \cup
         {Append(es, [id |-> id, branch |-> b, exit_kill |-> None, exit_code |-> c]) :
            es \in {l \in shorter : Len(l) = n - 1},
            id \in Ids, b \in Branches, c \in {None, Some(0)}}

DistinctIds(es) == \A j, k \in DOMAIN es : j # k => es[j].id # es[k].id

RECURSIVE LegacyLogs(_)
LegacyLogs(n) ==
    IF n = 0 THEN {<<>>}
    ELSE LET shorter == LegacyLogs(n - 1) IN
         shorter \cup
         {Append(l, sid) : l \in {x \in shorter : Len(x) = n - 1}, sid \in SessionIds}

(* Initial state of a first open: an empty database and legacy files *)
InitMig ==
    /\ processes = {}
    /\ tool_calls = {}
    /\ tc_autoinc = 0
    /\ has_state \in BOOLEAN
    /\ entries \in IF has_state
                   THEN {es \in LegacyLists(MaxIds) : DistinctIds(es)}
                   ELSE {<<>>}
    /\ torn = FALSE
    /\ lock = 0
    /\ has_lock_file = has_state
    /\ has_tools \in BOOLEAN
    /\ legacy_tools \in IF has_tools THEN LegacyLogs(MaxLegacyTools) ELSE {<<>>}
    /\ state_bak = None
    /\ tools_bak = None
    /\ migrations = 0
    /\ issued = EmptyBag
    /\ next_id = 1
    /\ pc = [i \in Invs |-> "idle"]
    /\ loc = [i \in Invs |-> NoLoc]
    /\ nops = 0

SpecDb == InitDb /\ [][NextDb]_vars

SpecReg == Init /\ [][NextReg]_vars

SpecLin == Init /\ [][NextLin]_vars

SpecMig == InitMig /\ [][NextMig]_vars

----------------------------------------------------------------------------
(* C1: two concurrent insert_tool_call for one process_id never store the
   same sequence twice: the (process_id, sequence) pairs of tool_calls are
   distinct in every reachable state. *)
NoDuplicateSequence ==
    \A r1, r2 \in tool_calls :
        (r1.process_id = r2.process_id /\ r1.sequence = r2.sequence) => r1 = r2

(* C3: when delete_process(id) returns Ok, get_process_by_id(id) finds no
   row and get_tool_calls_by_process(id) is empty. *)
DeleteReturnsOk(i) ==
    pc[i] = "delete_row" /\ pc'[i] = "idle" /\ loc'[i].res = "ok"

DeleteLeavesNothing ==
    [][\A i \in Invs :
          DeleteReturnsOk(i) =>
              /\ GetProcessById(processes', loc[i].id) = None
              /\ ToolCallsOf(tool_calls', loc[i].id) = {}]_vars

(* a delete_process that removed several tool calls and then the row *)
DeletedWithToolCalls ==
    \E i \in Invs :
        /\ pc[i] = "idle"
        /\ loc[i].op = "delete_process"
        /\ loc[i].res = "ok"
        /\ loc[i].removed > 1
        /\ ~ProcessExists(processes, loc[i].id)

(* C4: a reader never sees the Process of a running delete_process still
   present once its ToolCalls have been removed. *)
DeleteAtomicForReaders ==
    \A i \in Invs :
        (pc[i] = "delete_row" /\ loc[i].removed > 0)
            => ~ProcessExists(processes, loc[i].id)

----------------------------------------------------------------------------
(* The registry mutations applied one at a time *)

ApplyOp(st, o) ==
    IF o.store = "file"
    THEN [st EXCEPT !.entries = Mutate(st.entries, o)]
    ELSE [st EXCEPT !.processes =
            CASE o.op = "insert_process" ->
                    InsertInto(st.processes, ProcessRow(o.entry[1], "spawned")).rows
              [] o.op = "delete_process" -> {r \in st.processes : r.id # o.id}
              [] o.op = "set_exit_code" ->
                    UpdateExitCode(st.processes, o.id, o.code[1])
              [] OTHER -> st.processes]

RECURSIVE ApplyAll(_, _)
ApplyAll(st, ops) ==
    IF ops = <<>> THEN st ELSE ApplyAll(ApplyOp(st, Head(ops)), Tail(ops))

(* the sequential orders of a bag of operations *)
OrdersOf(B) ==
    {s \in [1..BagCardinality(B) -> BagToSet(B)] :
        \A o \in BagToSet(B) :
            Cardinality({k \in DOMAIN s : s[k] = o}) = CopiesIn(o, B)}

Quiescent == \A i \in Invs : pc[i] \in {"idle", "running"}

(* C2: once no mutation is in flight, both stores hold what some
   sequential order of the issued add/remove/update operations yields. *)
MutationsLinearizable ==
    Quiescent =>
        \E s \in OrdersOf(issued) :
            LET r == ApplyAll([entries |-> <<>>, processes |-> {}], s) IN
                r.entries = entries /\ r.processes = processes

(* an add_entry that started while another invocation held the lock has
   completed and its entry is in state.json *)
ContendedAddCompleted ==
    /\ Quiescent
    /\ \E i \in Invs :
          /\ loc[i].op = "add_entry"
          /\ loc[i].contended
          /\ loc[i].res = "ok"
          /\ FindById(entries, loc[i].id) # None

----------------------------------------------------------------------------
(* exit codes *)

ExitCodeOf(es, id) == FindById(es, id)[1].exit_code
RowOf(P, id) == GetProcessById(P, id)[1]

(* C5: a stored exit_code is never replaced by another value while the
   Process stays in the registry. *)
ExitCodeImmutable ==
    [][/\ \A id \in Ids :
            (/\ FindById(entries, id) # None
             /\ ExitCodeOf(entries, id) # None
             /\ FindById(entries', id) # None)
                => ExitCodeOf(entries', id) = ExitCodeOf(entries, id)
       /\ \A id \in Ids :
            (/\ ProcessExists(processes, id)
             /\ RowOf(processes, id).exit_code # None
             /\ ProcessExists(processes', id))
                => RowOf(processes', id).exit_code = RowOf(processes, id).exit_code
      ]_vars

(* C7: a Process with exit_code set (status exited) keeps an exit_code and
   the status while it stays in the registry. *)
NoReturnToSpawned ==
    [][/\ \A id \in Ids :
            (/\ FindById(entries, id) # None
             /\ ExitCodeOf(entries, id) # None
             /\ FindById(entries', id) # None)
                => ExitCodeOf(entries', id) # None
       /\ \A id \in Ids :
            (ProcessExists(processes, id) /\ ProcessExists(processes', id))
                => /\ RowOf(processes, id).exit_code # None
                        => RowOf(processes', id).exit_code # None
                   /\ RowOf(processes, id).status = "exited"
                        => RowOf(processes', id).status = "exited"
      ]_vars

(* a Process of state.json is exited after two completed exit-code writes,
   and a row of wortex.db after one *)
ExitedAfterSecondWrite ==
    \E i, j \in Invs :
        /\ i # j
        /\ pc[i] = "idle" /\ pc[j] = "idle"
        /\ loc[i].op = "update_exit_code" /\ loc[i].res = "ok"
        /\ loc[j].op = "update_exit_code" /\ loc[j].res = "ok"
        /\ loc[i].id = loc[j].id
        /\ loc[i].code # loc[j].code
        /\ FindById(entries, loc[i].id) # None
        /\ ExitCodeOf(entries, loc[i].id) # None

(* C6: when the command of a Process in the registry terminates with code
   c, run removes the Process iff its policy is present and matches c, and
   otherwise keeps it with exit_code = c. *)
PolicyMatches(ek, c) ==
    /\ ek # None
    /\ \/ ek[1].kind = "any"
       \/ c \in {ek[1].codes[k] : k \in DOMAIN ek[1].codes}

RunCompletes(i) ==
    /\ loc[i].cmd = "run"
    /\ pc[i] = "save"
    /\ pc'[i] = "write"
    /\ FindById(entries, loc[i].id) # None

RunOutcome ==
    [][\A i \in Invs :
          RunCompletes(i) =>
              LET id == loc[i].id
                  c == loc[i].code[1]
                  removed == FindById(entries', id) = None
                  kept == /\ FindById(entries', id) # None
                          /\ ExitCodeOf(entries', id) = Some(c)
              IN  /\ PolicyMatches(loc[i].entry[1].exit_kill, c) => removed
                  /\ ~PolicyMatches(loc[i].entry[1].exit_kill, c) => kept
                  /\ ~(removed /\ kept)]_vars

(* one run has kept a Process with its exit code and a later run of the
   same Process has removed it *)
RunKeptThenRemoved ==
    \E i, j \in Invs :
        /\ loc[i].cmd = "run" /\ loc[i].res = "ok" /\ pc[i] = "idle"
        /\ loc[i].op = "update_exit_code"
        /\ loc[j].cmd = "run" /\ loc[j].res = "ok" /\ pc[j] = "idle"
        /\ loc[j].op = "remove_entry"
        /\ loc[j].entry[1].exit_code = loc[i].code
        /\ loc[i].id = loc[j].id
        /\ FindById(entries, loc[j].id) = None

----------------------------------------------------------------------------
(* Migration *)

OpenStep(i) ==
    loc'[i].cmd = "open" /\ (pc'[i] # pc[i] \/ loc'[i] # loc[i])

(* C8: once a migration has completed, no step of a later open_and_init
   changes the Processes or the ToolCalls of the store. *)
SecondMigrationNoOp ==
    [][\A i \in Invs :
          (migrations >= 1 /\ OpenStep(i))
              => (processes' = processes /\ tool_calls' = tool_calls)]_vars

(* an open_and_init that started after a completed migration has returned
   and the store still holds migrated rows *)
ReopenedAfterMigration ==
    \E i \in Invs :
        /\ pc[i] = "idle"
        /\ loc[i].cmd = "open"
        /\ loc[i].res = "ok"
        /\ loc[i].prior >= 1
        /\ processes # {}
        /\ tool_calls # {}

(* C9: after a successful migration every entry of the legacy state.json
   is a Process of the store. *)
MigrationLosesNoEntry ==
    \A i \in Invs :
        (pc[i] = "complete" /\ loc[i].has_state)
            => \A k \in DOMAIN state_bak[1] :
                  ProcessExists(processes, state_bak[1][k].id)

(* C10: when migrate_tools_db has returned, the store holds exactly the
   legacy records whose session_id is a Process, each once, and the
   records of one process carry 1..k in the order of the legacy log. *)
Survivors(P, rows) == {k \in DOMAIN rows : ProcessExists(P, rows[k])}

ToolsMigratedInOrder ==
    \A i \in Invs :
        (pc[i] = "backup" /\ loc[i].has_tools) =>
            /\ {r.payload : r \in tool_calls} = Survivors(processes, legacy_tools)
            /\ Cardinality(tool_calls) =
                  Cardinality(Survivors(processes, legacy_tools))
            /\ \A r \in tool_calls :
                  /\ r.process_id = legacy_tools[r.payload]
                  /\ r.sequence =
                        Cardinality({k \in Survivors(processes, legacy_tools) :
                            k <= r.payload /\ legacy_tools[k] = r.process_id})

(* a log with an orphaned record and two records of one process has been
   migrated *)
OrphanDroppedAndSequenced ==
    \E i \in Invs :
        /\ pc[i] = "backup"
        /\ loc[i].has_tools
        /\ Cardinality(Survivors(processes, legacy_tools)) < Len(legacy_tools)
        /\ \E r \in tool_calls : r.sequence = 2

----------------------------------------------------------------------------
(* The guards of migrate_if_needed *)

(* open_and_init with legacy files on disk while other invocations call
   insert_process *)
NextGuard ==
    /\ \E i \in Invs :
        \/ Sequential /\ MigrateBegin(i)
        \/ MigrateStateJson(i)
        \/ MigrateToolsDb(i)
        \/ BackupLegacy(i)
        \/ MigrateDone(i)
        \/ \E b \in Branches :
              InsertProcess(i, [id |-> 1, branch |-> b, exit_code |-> None])
    /\ UNCHANGED issued

(* Initial state: an empty database; state.json with at most one entry and
   tools.db with at most two records, each present or not *)
InitGuard ==
    /\ processes = {}
    /\ tool_calls = {}
    /\ tc_autoinc = 0
    /\ has_state \in BOOLEAN
    /\ entries \in IF has_state
                   THEN {es \in LegacyLists(1) : DistinctIds(es)}
                   ELSE {<<>>}
    /\ torn = FALSE
    /\ lock = 0
    /\ has_lock_file = has_state
    /\ has_tools \in BOOLEAN
    /\ legacy_tools \in IF has_tools THEN LegacyLogs(2) ELSE {<<>>}
    /\ state_bak = None
    /\ tools_bak = None
    /\ migrations = 0
    /\ issued = EmptyBag
    /\ next_id = 1
    /\ pc = [i \in Invs |-> "idle"]
    /\ loc = [i \in Invs |-> NoLoc]
    /\ nops = 0

SpecGuard == InitGuard /\ [][NextGuard]_vars

StoreOrLegacyChanged ==
    \/ processes' # processes
    \/ tool_calls' # tool_calls
    \/ state_bak' # state_bak
    \/ tools_bak' # tools_bak
    \/ has_state' # has_state
    \/ has_tools' # has_tools

(* C11: a step of open_and_init changes the store or the legacy files only
   if its guards saw a legacy file on disk and zero rows in processes; the
   step that evaluates the guards changes nothing, and when it sees one or
   more Processes the invocation returns without migrating. *)
MigratesOnlyWhenGuardHolds ==
    [][\A i \in Invs :
          OpenStep(i) =>
              /\ StoreOrLegacyChanged =>
                    /\ loc'[i].has_state \/ loc'[i].has_tools
                    /\ loc'[i].count = 0
              /\ pc[i] = "idle" =>
                    /\ ~StoreOrLegacyChanged
                    /\ loc'[i].count = Cardinality(processes)
                    /\ loc'[i].has_state = has_state
                    /\ loc'[i].has_tools = has_tools
                    /\ processes # {} => pc'[i] = "idle"]_vars

(* an open_and_init has returned at the row-count guard with the legacy
   files still on disk, and the store holds no migrated row *)
GuardSkippedMigration ==
    \E i \in Invs :
        /\ pc[i] = "idle"
        /\ loc[i].cmd = "open"
        /\ loc[i].res = "ok"
        /\ loc[i].count > 0
        /\ loc[i].has_state /\ loc[i].has_tools
        /\ has_state /\ has_tools
        /\ entries # <<>> /\ legacy_tools # <<>>
        /\ state_bak = None /\ tools_bak = None
        /\ tool_calls = {}

----------------------------------------------------------------------------
(* cleanup: the stale detector *)

(* registries as new::execute fills them: the k-th entry has the k-th fresh
   id, its branch is any *)
StaleIds == 1..MaxStale

EntryLists ==
    UNION {{[k \in 1..n |-> NewEntry(k, bs[k], None)] : bs \in [1..n -> Branches]} :
              n \in 0..MaxStale}

(* one cleanup per behaviour, with any directories and windows present,
   as a dry run or not *)
NextStale ==
    /\ \E i \in Invs :
        \/ \E paths \in SUBSET StaleIds, windows \in SUBSET StaleIds,
              dry_run \in BOOLEAN :
                nops = 0 /\ Cleanup(i, paths, windows, dry_run)
        \/ CleanupRemove(i)
        \/ AcquireLock(i)
        \/ Load(i)
        \/ Truncate(i)
        \/ Save(i)
    /\ UNCHANGED issued

InitStale ==
    /\ processes = {}
    /\ tool_calls = {}
    /\ tc_autoinc = 0
    /\ entries \in EntryLists
    /\ has_state = TRUE
    /\ torn = FALSE
    /\ lock = 0
    /\ has_lock_file = TRUE
    /\ legacy_tools = <<>>
    /\ has_tools = FALSE
    /\ state_bak = None
    /\ tools_bak = None
    /\ migrations = 0
    /\ issued = EmptyBag
    /\ next_id = Len(entries) + 1
    /\ pc = [i \in Invs |-> "idle"]
    /\ loc = [i \in Invs |-> NoLoc]
    /\ nops = 0

SpecStale == InitStale /\ [][NextStale]_vars

FixedOrder == <<"worktree missing", "window missing", "duplicate branch">>

EarlierBranch(es, k) == \E j \in 1..(k - 1) : es[j].branch = es[k].branch

IsTriggered(es, k, paths, windows, r) ==
    CASE r = "worktree missing" -> ~PathExists(es[k], paths)
      [] r = "window missing" -> ~WindowExists(es[k], windows)
      [] r = "duplicate branch" -> EarlierBranch(es, k)

StaleIdx(es, paths, windows) ==
    {k \in DOMAIN es :
        \E n \in DOMAIN FixedOrder : IsTriggered(es, k, paths, windows, FixedOrder[n])}

NthOf(S, n) == CHOOSE k \in S : Cardinality({j \in S : j <= k}) = n

(* C12: the result of find_stale_entries lists, in input order, exactly
   the entries without a directory, without a window or with the branch of
   an earlier entry; each item carries the id and the branch of its entry,
   and its reasons are the triggered conditions in the fixed order. *)
StaleExactlyTriggered ==
    \A i \in Invs :
        loc[i].cmd = "cleanup" =>
            LET es == loc[i].snapshot
                idx == StaleIdx(es, loc[i].paths, loc[i].windows)
                out == loc[i].stale
            IN  /\ Len(out) = Cardinality(idx)
                /\ \A n \in DOMAIN out :
                      LET k == NthOf(idx, n) IN
                          /\ out[n].id = es[k].id
                          /\ out[n].branch = es[k].branch
                          /\ out[n].reasons =
                                SelectSeq(FixedOrder,
                                    LAMBDA r : IsTriggered(es, k, loc[i].paths,
                                                           loc[i].windows, r))

(* a scan has returned an item with all three reasons after skipping a
   valid entry *)
StaleWithAllReasons ==
    \E i \in Invs :
        /\ loc[i].cmd = "cleanup"
        /\ Len(loc[i].stale) < Len(loc[i].snapshot)
        /\ \E n \in DOMAIN loc[i].stale : loc[i].stale[n].reasons = FixedOrder

ItemsOf(out, id) == {n \in DOMAIN out : out[n].id = id}

HasReason(item, r) == \E n \in DOMAIN item.reasons : item.reasons[n] = r

(* C13: the first entry of a branch is never given the reason "duplicate
   branch", and every later entry of the branch is given it, also when the
   first one is itself stale. *)
DuplicateOnlyLaterOccurrences ==
    \A i \in Invs :
        loc[i].cmd = "cleanup" =>
            LET es == loc[i].snapshot
                out == loc[i].stale
            IN  \A k \in DOMAIN es :
                    IF EarlierBranch(es, k)
                    THEN /\ ItemsOf(out, es[k].id) # {}
                         /\ \A n \in ItemsOf(out, es[k].id) :
                                HasReason(out[n], "duplicate branch")
                    ELSE \A n \in ItemsOf(out, es[k].id) :
                                ~HasReason(out[n], "duplicate branch")

(* a scan has flagged the first entry of a branch for a missing window
   only and a later entry of the branch as a duplicate only *)
StaleFirstThenDuplicate ==
    \E i \in Invs :
        /\ loc[i].cmd = "cleanup"
        /\ \E m, n \in DOMAIN loc[i].stale :
              /\ m < n
              /\ loc[i].stale[m].branch = loc[i].stale[n].branch
              /\ loc[i].stale[m].reasons = <<"window missing">>
              /\ loc[i].stale[n].reasons = <<"duplicate branch">>
              /\ ~EarlierBranch(loc[i].snapshot, loc[i].stale[m].id)

----------------------------------------------------------------------------
(* run: the exit-kill decision *)

KillCodes == 0..MaxCode

(* the policies new::execute stores: none, Any, or Codes with the list of
   --exit-kill *)
KillPolicies ==
    {None, Some(ExitKillAny)} \cup
    {Some(CodesOf(cs)) : cs \in UNION {[1..n -> KillCodes] : n \in 0..2}}

(* run of the Processes of a registry, one run after another, with any
   exit code *)
NextKill ==
    /\ \E i \in Invs :
        \/ \E id \in Ids : Sequential /\ RunStart(i, id)
        \/ \E c \in KillCodes : RunExit(i, c)
        \/ AcquireLock(i)
        \/ Load(i)
        \/ Truncate(i)
        \/ Save(i)
    /\ UNCHANGED issued

(* Initial state: state.json with one Process of any policy *)
InitKill ==
    /\ processes = {}
    /\ tool_calls = {}
    /\ tc_autoinc = 0
    /\ \E ek \in KillPolicies : entries = <<NewEntry(1, "a", ek)>>
    /\ has_state = TRUE
    /\ torn = FALSE
    /\ lock = 0
    /\ has_lock_file = TRUE
    /\ legacy_tools = <<>>
    /\ has_tools = FALSE
    /\ state_bak = None
    /\ tools_bak = None
    /\ migrations = 0
    /\ issued = EmptyBag
    /\ next_id = 2
    /\ pc = [i \in Invs |-> "idle"]
    /\ loc = [i \in Invs |-> NoLoc]
    /\ nops = 0

SpecKill == InitKill /\ [][NextKill]_vars

(* C14: the decision of run is defined for every policy and exit code: it
   is to remove under Any, under Codes(S) exactly when the code is in S,
   and never without a policy. *)
KillDecisionTotal ==
    [][\A i \in Invs :
          (pc[i] = "running" /\ pc'[i] = "lock") =>
              LET ek == loc[i].entry[1].exit_kill
                  c == loc'[i].code[1]
                  kill == loc'[i].op = "remove_entry"
              IN  /\ loc'[i].op \in {"remove_entry", "update_exit_code"}
                  /\ ek = None => ~kill
                  /\ (ek # None /\ ek[1].kind = "any") => kill
                  /\ (ek # None /\ ek[1].kind = "codes") =>
                        (kill <=> \E k \in DOMAIN ek[1].codes : ek[1].codes[k] = c)
      ]_vars

(* a run under Codes with two codes has removed its Process on the second
   code of the list *)
KilledOnSecondCode ==
    \E i \in Invs :
        /\ loc[i].cmd = "run" /\ pc[i] = "idle" /\ loc[i].res = "ok"
        /\ loc[i].op = "remove_entry"
        /\ loc[i].entry[1].exit_kill # None
        /\ loc[i].entry[1].exit_kill[1].kind = "codes"
        /\ Len(loc[i].entry[1].exit_kill[1].codes) = 2
        /\ loc[i].entry[1].exit_kill[1].codes[1] # loc[i].code[1]
        /\ loc[i].entry[1].exit_kill[1].codes[2] = loc[i].code[1]
        /\ FindById(entries, loc[i].id) = None

----------------------------------------------------------------------------
(* insert_tool_call, one call after another *)

NextOneByOne ==
    /\ \E i \in Invs :
        \/ \E id \in Ids : Sequential /\ ReadNextSeq(i, id)
        \/ InsertToolCall(i)
    /\ UNCHANGED issued

(* Initial state: a database whose Processes are any of the ids, each with
   its own branch, and no tool call *)
InitSeq ==
    /\ \E present \in SUBSET Ids :
          processes = {ProcessRow([id |-> id, exit_code |-> None,
                                   branch |-> IF id = 1 THEN "a" ELSE "b"],
                                  "spawned") : id \in present \cap {1, 2}}
    /\ tool_calls = {}
    /\ tc_autoinc = 0
    /\ entries = <<>>
    /\ has_state = FALSE
    /\ torn = FALSE
    /\ lock = 0
    /\ has_lock_file = FALSE
    /\ legacy_tools = <<>>
    /\ has_tools = FALSE
    /\ state_bak = None
    /\ tools_bak = None
    /\ migrations = 0
    /\ issued = EmptyBag
    /\ next_id = 1
    /\ pc = [i \in Invs |-> "idle"]
    /\ loc = [i \in Invs |-> NoLoc]
    /\ nops = 0

SpecSeq == InitSeq /\ [][NextOneByOne]_vars

(* C15: with the calls of insert_tool_call running one after another, the
   ToolCalls of each process carry exactly the sequences 1..N, N their
   number, in the order of insertion (the order of the row ids). *)
SequencesDense ==
    \A id \in Ids :
        LET rows == ToolCallsOf(tool_calls, id) IN
            /\ {r.sequence : r \in rows} = 1..Cardinality(rows)
            /\ \A r1, r2 \in rows : (r1.id < r2.id) <=> (r1.sequence < r2.sequence)

(* two ToolCalls of one process were inserted with a ToolCall of another
   process between them *)
InterleavedProcesses ==
    \E r1, r2, r \in tool_calls :
        /\ r1.process_id = r2.process_id
        /\ r.process_id # r1.process_id
        /\ r1.id < r.id /\ r.id < r2.id
        /\ r1.sequence = 1 /\ r2.sequence = 2 /\ r.sequence = 1

----------------------------------------------------------------------------
(* Deletion from both registries *)

NextDel ==
    /\ \E i \in Invs :
        \/ \E id \in Ids : DeleteToolCalls(i, id)
        \/ DeleteProcessRow(i)
        \/ \E id \in Ids : RemoveEntry(i, id)
        \/ AcquireLock(i)
        \/ Load(i)
        \/ Truncate(i)
        \/ Save(i)
    /\ UNCHANGED issued

(* the Processes 1 (branch a) and 2 (branch b) *)
TwoEntries == <<NewEntry(1, "a", None), NewEntry(2, "b", None)>>

(* Initial state: wortex.db holds any of the two Processes, Process 1 with
   up to MaxCalls tool calls and Process 2 with one; state.json holds
   none, the first or both *)
InitDel ==
    /\ \E present \in SUBSET {1, 2}, n \in 0..MaxCalls :
          /\ processes = {ProcessRow(TwoEntries[id], "spawned") : id \in present}
          /\ tool_calls =
                {[id |-> k, process_id |-> 1, sequence |-> k, payload |-> 0] :
                    k \in IF 1 \in present THEN 1..n ELSE {}}
                \cup {[id |-> MaxCalls + 1, process_id |-> 2, sequence |-> 1,
                       payload |-> 0] : k \in present \cap {2}}
          /\ tc_autoinc = MaxCalls + 1
    /\ \E n \in 0..2 : entries = SubSeq(TwoEntries, 1, n)
    /\ has_state = TRUE
    /\ torn = FALSE
    /\ lock = 0
    /\ has_lock_file = TRUE
    /\ legacy_tools = <<>>
    /\ has_tools = FALSE
    /\ state_bak = None
    /\ tools_bak = None
    /\ migrations = 0
    /\ issued = EmptyBag
    /\ next_id = 3
    /\ pc = [i \in Invs |-> "idle"]
    /\ loc = [i \in Invs |-> NoLoc]
    /\ nops = 0

SpecDel == InitDel /\ [][NextDel]_vars

(* C16: a statement of delete_process for an id without a Process row
   changes no Process and no ToolCall and the call returns Ok; remove_entry
   of an id without an entry returns Ok and leaves the registry as it was;
   after a delete that returned Ok the id is absent, so that a second
   delete of it is such a no-op. *)
DeleteMissingIsNoOp ==
    [][\A i \in Invs :
          /\ (pc[i] = "idle" /\ pc'[i] = "delete_row"
                /\ ~ProcessExists(processes, loc'[i].id))
                => (processes' = processes /\ tool_calls' = tool_calls)
          /\ (pc[i] = "delete_row" /\ pc'[i] = "idle"
                /\ ~ProcessExists(processes, loc[i].id))
                => /\ processes' = processes /\ tool_calls' = tool_calls
                   /\ loc'[i].res = "ok"
          /\ (pc[i] = "delete_row" /\ pc'[i] = "idle" /\ loc'[i].res = "ok")
                => ~ProcessExists(processes', loc[i].id)
          /\ (pc[i] = "write" /\ pc'[i] = "idle" /\ loc[i].op = "remove_entry")
                => loc'[i].res = "ok"
          /\ (pc[i] = "save" /\ pc'[i] = "write" /\ loc[i].op = "remove_entry")
                => /\ FindById(entries', loc[i].id) = None
                   /\ FindById(LoadState, loc[i].id) = None
                        => (entries' = LoadState /\ processes' = processes
                            /\ tool_calls' = tool_calls)
      ]_vars

(* the same id was deleted twice from each registry: the first
   delete_process removed tool calls and the row, the second found nothing,
   and the other Process with its tool call and entry is still there *)
DeletedTwice ==
    /\ \E i, j \in Invs :
          /\ i # j
          /\ pc[i] = "idle" /\ pc[j] = "idle"
          /\ loc[i].op = "delete_process" /\ loc[i].res = "ok"
          /\ loc[j].op = "delete_process" /\ loc[j].res = "ok"
          /\ loc[i].id = loc[j].id
          /\ loc[i].removed > 0 /\ loc[j].removed = 0
          /\ ~ProcessExists(processes, loc[i].id)
    /\ processes # {}
    /\ tool_calls # {}

----------------------------------------------------------------------------
(* C17: set_exit_code for an id without a Process row returns Ok and
   leaves processes as it was; update_exit_code for an id without an entry
   returns Ok and saves the registry as it was; neither creates a Process
   for the id. *)
ExitCodeOfMissingIsNoOp ==
    [][\A i \in Invs :
          /\ \A id \in Ids, c \in ExitCodes :
                (SetExitCode(i, id, c) /\ ~ProcessExists(processes, id))
                    => /\ processes' = processes
                       /\ entries' = entries
                       /\ loc'[i].res = "ok"
          /\ (pc[i] = "save" /\ pc'[i] = "write"
                /\ loc[i].op = "update_exit_code"
                /\ FindById(LoadState, loc[i].id) = None)
                    => /\ entries' = LoadState
                       /\ processes' = processes
                       /\ FindById(entries', loc[i].id) = None
          /\ (pc[i] = "write" /\ pc'[i] = "idle"
                /\ loc[i].op = "update_exit_code")
                    => loc'[i].res = "ok"
      ]_vars

(* update_exit_code and set_exit_code have both returned Ok in a behaviour
   that never added a Process, and both registries are empty *)
ExitCodeOfMissingReturned ==
    /\ nops = 2
    /\ has_state /\ entries = <<>> /\ processes = {}
    /\ \E i, j \in Invs :
          /\ pc[i] = "idle" /\ pc[j] = "idle"
          /\ loc[i].op = "update_exit_code" /\ loc[i].res = "ok"
          /\ loc[j].op = "set_exit_code" /\ loc[j].res = "ok"

----------------------------------------------------------------------------
(* The status column *)

(* the Entry values of the type: exit_code is an Option<i32> *)
AnyEntries == [id : Ids, branch : Branches, exit_code : {None, Some(0)}]

(* every writer of the processes table *)
NextStatus ==
    /\ \E i \in Invs :
        \/ \E e \in AnyEntries : InsertProcess(i, e)
        \/ \E id \in Ids : SetExitCode(i, id, 0)
        \/ Sequential /\ MigrateBegin(i)
        \/ MigrateStateJson(i)
        \/ MigrateToolsDb(i)
        \/ BackupLegacy(i)
        \/ MigrateDone(i)
    /\ UNCHANGED issued

SpecStatus == InitGuard /\ [][NextStatus]_vars

(* C18: every row of processes has status spawned exactly when its
   exit_code is unset and status exited exactly when it is set. *)
StatusDerivedFromExitCode ==
    \A r \in processes :
        /\ r.status \in {"spawned", "exited"}
        /\ (r.status = "spawned") <=> (r.exit_code = None)
        /\ (r.status = "exited") <=> (r.exit_code # None)

----------------------------------------------------------------------------
(* Termination of an invocation in the middle of an operation *)

(* the mutations of both registries, each of which may be terminated at
   any point *)
NextCrash ==
    /\ \E i \in Invs :
        \/ \E id \in Ids : RemoveEntry(i, id)
        \/ \E id \in Ids : UpdateExit(i, id, 0)
        \/ AcquireLock(i)
        \/ Load(i)
        \/ Truncate(i)
        \/ Save(i)
        \/ \E id \in Ids : DeleteToolCalls(i, id)
        \/ DeleteProcessRow(i)
        \/ Crash(i)
    /\ UNCHANGED issued

SpecCrash == InitDel /\ [][NextCrash]_vars

(* C19: the persisted registry is complete whenever no write is under way:
   state.json is an incomplete file only while an invocation is inside
   fs::write, and a terminated delete_process that removed ToolCalls of a
   Process has removed the Process as well. *)
CrashLeavesCompleteState ==
    /\ (has_state /\ torn) => \E i \in Invs : pc[i] = "write"
    /\ \A i \in Invs :
          (/\ pc[i] = "idle"
           /\ loc[i].res = "killed"
           /\ loc[i].op = "delete_process"
           /\ loc[i].removed > 0)
              => ~ProcessExists(processes, loc[i].id)

----------------------------------------------------------------------------
(* Readers without the lock *)

(* the mutations of state.json under the lock, and run with its find_by_id
   outside of it *)
NextRead ==
    /\ \E i \in Invs :
        \/ \E id \in Ids : RemoveEntry(i, id)
        \/ \E id \in Ids : UpdateExit(i, id, 0)
        \/ AcquireLock(i)
        \/ Load(i)
        \/ Truncate(i)
        \/ Save(i)
        \/ \E id \in Ids : RunStart(i, id)
        \/ \E c \in ExitCodes : RunExit(i, c)
    /\ UNCHANGED issued

(* Initial state: state.json with none, the first or both of two Processes *)
InitRead ==
    /\ processes = {}
    /\ tool_calls = {}
    /\ tc_autoinc = 0
    /\ \E n \in 0..2 : entries = SubSeq(TwoEntries, 1, n)
    /\ has_state = TRUE
    /\ torn = FALSE
    /\ lock = 0
    /\ has_lock_file = TRUE
    /\ legacy_tools = <<>>
    /\ has_tools = FALSE
    /\ state_bak = None
    /\ tools_bak = None
    /\ migrations = 0
    /\ issued = EmptyBag
    /\ next_id = 3
    /\ pc = [i \in Invs |-> "idle"]
    /\ loc = [i \in Invs |-> NoLoc]
    /\ nops = 0

SpecRead == InitRead /\ [][NextRead]_vars

(* C20: a read of the registry without the lock that overlaps a mutation
   returns the registry from before or from after it, never an error: no
   load of run fails. *)
UnlockedReadNeverFails ==
    \A i \in Invs : loc[i].cmd = "run" => loc[i].res # "load_err"

----------------------------------------------------------------------------
(* insert_process and the branch *)

(* C21: the store does not reject an insert because of the branch: an
   insert_process of a Process whose id is not stored returns Ok and stores
   its row, whatever the branches of the rows already stored. *)
InsertNeverRejectsBranch ==
    [][\A i \in Invs, e \in RegEntries :
          (InsertProcess(i, e) /\ ~ProcessExists(processes, e.id))
              => /\ loc'[i].res = "ok"
                 /\ ProcessExists(processes', e.id)]_vars

----------------------------------------------------------------------------
(* The commands that remove a Process *)

(* run, kill and cleanup on a registry whose legacy files an open_and_init
   migrates; a kill may start while another invocation is under way *)
NextCascade ==
    /\ \E i \in Invs :
        \/ \E id \in Ids : Sequential /\ RunStart(i, id)
        \/ \E c \in ExitCodes : RunExit(i, c)
        \/ \E b \in Branches : Kill(i, b)
        \/ \E torn_down \in BOOLEAN : KillRemove(i, torn_down)
        \/ \E paths \in SUBSET Ids, dry_run \in BOOLEAN :
              Sequential /\ Cleanup(i, paths, Ids, dry_run)
        \/ CleanupRemove(i)
        \/ AcquireLock(i)
        \/ Load(i)
        \/ Truncate(i)
        \/ Save(i)
        \/ Sequential /\ MigrateBegin(i)
        \/ MigrateStateJson(i)
        \/ MigrateToolsDb(i)
        \/ BackupLegacy(i)
        \/ MigrateDone(i)
    /\ UNCHANGED issued

(* Initial state: an empty database; state.json with one Process of any
   policy, and tools.db with the records of at most two tool calls *)
InitCascade ==
    /\ processes = {}
    /\ tool_calls = {}
    /\ tc_autoinc = 0
    /\ has_state = TRUE
    /\ \E ek \in ExitKills : entries = <<NewEntry(1, "a", ek)>>
    /\ torn = FALSE
    /\ lock = 0
    /\ has_lock_file = TRUE
    /\ has_tools \in BOOLEAN
    /\ legacy_tools \in IF has_tools THEN LegacyLogs(2) ELSE {<<>>}
    /\ state_bak = None
    /\ tools_bak = None
    /\ migrations = 0
    /\ issued = EmptyBag
    /\ next_id = 2
    /\ pc = [i \in Invs |-> "idle"]
    /\ loc = [i \in Invs |-> NoLoc]
    /\ nops = 0

SpecCascade == InitCascade /\ [][NextCascade]_vars

RemovesProcess(i) ==
    /\ pc[i] = "save"
    /\ pc'[i] = "write"
    /\ loc[i].cmd \in {"run", "kill", "cleanup"}
    /\ loc[i].op = "remove_entry"
    /\ FindById(loc[i].state, loc[i].id) # None

(* C22: when run, kill or cleanup has removed a Process from the registry,
   no ToolCall of the Process is left: none in the table tool_calls and
   none in the legacy tool-call log. *)
RemovalCascadesToToolCalls ==
    [][\A i \in Invs :
          RemovesProcess(i) =>
              /\ ToolCallsOf(tool_calls', loc[i].id) = {}
              /\ \A k \in DOMAIN legacy_tools' : legacy_tools'[k] # loc[i].id]_vars

----------------------------------------------------------------------------
(* open_and_init on any legacy files, terminated at any point *)

(* the legacy tools.db: records of known and unknown sessions and
   malformed records *)
RECURSIVE AnyLogs(_)
AnyLogs(n) ==
    IF n = 0 THEN {<<>>}
    ELSE LET shorter == AnyLogs(n - 1) IN
         shorter \cup
         {Append(l, sid) : l \in {x \in shorter : Len(x) = n - 1},
                           sid \in SessionIds \cup {MalformedRow}}

NextOpen ==
    /\ \E i \in Invs :
        \/ Sequential /\ MigrateBegin(i)
        \/ MigrateStateJson(i)
        \/ MigrateToolsDb(i)
        \/ BackupLegacy(i)
        \/ MigrateDone(i)
        \/ Crash(i)
    /\ UNCHANGED issued

(* Initial state of a first open: an empty database; state.json, complete
   or not, with at most one entry; tools.db with at most two records;
   state.lock; each of the files present or not *)
InitOpen ==
    /\ processes = {}
    /\ tool_calls = {}
    /\ tc_autoinc = 0
    /\ has_state \in BOOLEAN
    /\ entries \in IF has_state THEN LegacyLists(1) ELSE {<<>>}
    /\ torn \in IF has_state THEN BOOLEAN ELSE {FALSE}
    /\ lock = 0
    /\ has_lock_file \in BOOLEAN
    /\ has_tools \in BOOLEAN
    /\ legacy_tools \in IF has_tools THEN AnyLogs(2) ELSE {<<>>}
    /\ state_bak = None
    /\ tools_bak = None
    /\ migrations = 0
    /\ issued = EmptyBag
    /\ next_id = 1
    /\ pc = [i \in Invs |-> "idle"]
    /\ loc = [i \in Invs |-> NoLoc]
    /\ nops = 0

SpecOpen == InitOpen /\ [][NextOpen]_vars

(* C23: the step of a migration that backs the legacy files up leaves
   each file its guards saw under its backup name with its content and not
   under its original name, and no state.lock; this still is so when the
   migration returns Ok; and no step makes a legacy file disappear other
   than by such a rename. *)
MigrationBacksUpLegacy ==
    [][/\ \A i \in Invs :
            (pc[i] = "backup" /\ pc'[i] = "complete") =>
                /\ loc[i].has_state =>
                      (has_state /\ ~has_state' /\ state_bak' = Some(entries))
                /\ loc[i].has_tools =>
                      (has_tools /\ ~has_tools' /\ tools_bak' = Some(legacy_tools))
                /\ ~has_lock_file'
       /\ \A i \in Invs :
            (pc[i] = "complete" /\ pc'[i] = "idle" /\ loc'[i].res = "ok") =>
                /\ loc[i].has_state => (~has_state' /\ state_bak' # None)
                /\ loc[i].has_tools => (~has_tools' /\ tools_bak' # None)
                /\ ~has_lock_file'
       /\ (has_state /\ ~has_state') => state_bak' = Some(entries)
       /\ (has_tools /\ ~has_tools') => tools_bak' = Some(legacy_tools)
      ]_vars

(* a migration of both legacy files, with state.lock on disk, has
   returned Ok: both backups hold what the files held *)
BothLegacyFilesBackedUp ==
    \E i \in Invs :
        /\ pc[i] = "idle"
        /\ loc[i].cmd = "open" /\ loc[i].res = "ok"
        /\ loc[i].has_state /\ loc[i].has_tools
        /\ migrations = 1
        /\ ~has_state /\ ~has_tools /\ ~has_lock_file
        /\ state_bak # None /\ state_bak[1] # <<>>
        /\ tools_bak # None /\ tools_bak[1] # <<>>
        /\ processes # {} /\ tool_calls # {}

(* the legacy files an open has seen cannot all be parsed *)
Unparseable(i) ==
    \/ loc[i].has_state /\ LoadFails
    \/ loc[i].has_tools /\ FirstMalformed(legacy_tools) # 0

LegacyUntouched ==
    /\ has_state' = has_state /\ entries' = entries /\ state_bak' = state_bak
    /\ has_tools' = has_tools /\ legacy_tools' = legacy_tools
    /\ tools_bak' = tools_bak

(* C24: an open_and_init whose migration meets a legacy file it cannot
   parse returns an error: the step that fails renames nothing and keeps
   every row stored before it, also the rows of the failing file; no
   migration reaches its renames with an unparseable file; and after the
   error the legacy files are where they were. *)
ParseFailureAbortsOpen ==
    [][\A i \in Invs :
          /\ (pc[i] \in {"mig_state", "mig_tools"} /\ pc'[i] = "idle"
                /\ loc'[i].res \in {"load_err", "err"}) =>
                /\ Unparseable(i)
                /\ LegacyUntouched
                /\ processes \subseteq processes'
                /\ tool_calls \subseteq tool_calls'
                /\ state_bak' = None /\ tools_bak' = None
                /\ loc[i].has_state => has_state'
                /\ loc[i].has_tools => has_tools'
          /\ (pc[i] = "mig_tools" /\ pc'[i] = "backup") => ~Unparseable(i)
          /\ (pc[i] = "backup" /\ pc'[i] = "complete") => ~Unparseable(i)
      ]_vars

(* an open has returned the error of a malformed record of tools.db after
   it had stored a Process of state.json and a tool call of tools.db; both
   rows are in the store and both legacy files are in place *)
FailedAfterCommittedRows ==
    \E i \in Invs :
        /\ pc[i] = "idle"
        /\ loc[i].cmd = "open" /\ loc[i].res = "err"
        /\ processes # {} /\ tool_calls # {}
        /\ has_state /\ has_tools
        /\ state_bak = None /\ tools_bak = None
        /\ migrations = 0

(* the store holds migrated Processes and no ToolCall, the legacy files are
   under their original names and no invocation is under way *)
EntriesOnlyMigrated ==
    /\ Sequential
    /\ processes # {}
    /\ tool_calls = {}
    /\ has_state /\ state_bak = None /\ tools_bak = None

(* an open_and_init is terminated between migrate_state_json, which
   stored one or more Processes, and migrate_tools_db *)
InterruptedBeforeToolsDb(i) ==
    /\ Crash(i)
    /\ pc[i] = "mig_tools"
    /\ processes # {}
    /\ tool_calls = {}

(* C25 as stated: at an interruption after the legacy entry log has been
   migrated and before the legacy tool-call log has been processed, the
   entry log has been renamed to its backup name. *)
InterruptedAfterEntryLogRenamed ==
    [][\A i \in Invs :
          InterruptedBeforeToolsDb(i) => (~has_state' /\ state_bak' # None)]_vars

(* C25, amended: an interruption after the Processes of the legacy entry
   log have been stored and before the legacy tool-call log has been
   processed leaves both legacy files under their original names; from then
   on every open sees a nonzero Process count and returns without
   migrating, and no ToolCall is ever stored. *)
InterruptedMigrationLosesToolCalls ==
    [][/\ \A i \in Invs : InterruptedBeforeToolsDb(i) => EntriesOnlyMigrated'
       /\ EntriesOnlyMigrated =>
            /\ EntriesOnlyMigrated'
            /\ \A i \in Invs :
                  OpenStep(i) =>
                      /\ loc'[i].count > 0
                      /\ pc'[i] = "idle"
                      /\ loc'[i].res = "ok"
                      /\ ~StoreOrLegacyChanged
      ]_vars

(* after an interrupted migration a later open has returned at the
   row-count guard, and the records of a migrated Process are still in
   tools.db and not in the store *)
RetrySkippedToolCalls ==
    \E i, j \in Invs :
        /\ i # j
        /\ pc[i] = "idle" /\ pc[j] = "idle"
        /\ loc[i].cmd = "open" /\ loc[i].res = "killed" /\ loc[i].count = 0
        /\ loc[j].cmd = "open" /\ loc[j].res = "ok" /\ loc[j].count > 0
        /\ has_tools
        /\ FirstMalformed(legacy_tools) = 0
        /\ Survivors(processes, legacy_tools) # {}
        /\ tool_calls = {}
        /\ migrations = 0

----------------------------------------------------------------------------
(* Reading rows of processes *)

(* the row insert_process stores for Process 1 of tests::make_entry, with
   an exit_kill, and the same row with one text that does not parse: an id
   that is no UUID, a command_json without its "prompt" or of an unknown
   type, an exit_kill_json of another shape, a created_at that is no
   RFC 3339 time *)
GoodRow ==
    ProcessRow([id |-> 1, branch |-> "a", exit_kill |-> Some(ExitKillAny)],
               "spawned")

StoredRows ==
    {GoodRow,
     [GoodRow EXCEPT !.id = BadUuidText],
     [GoodRow EXCEPT !.command_json.prompt = None],
     [GoodRow EXCEPT !.command_json.type = "shell"],
     [GoodRow EXCEPT !.exit_kill_json = Some([json |-> "string", name |-> "codes",
                                              items |-> <<>>])],
     [GoodRow EXCEPT !.created_at = <<120>>]}

NextRows ==
    /\ \E i \in Invs :
        \/ \E id \in Ids : GetProcess(i, id)
        \/ GetAllProcesses(i)
    /\ UNCHANGED issued

(* Initial state: a database with one of the rows, alone or beside the
   row of Process 2 *)
InitRows ==
    /\ \E r \in StoredRows, others \in SUBSET {ProcessRow([id |-> 2, branch |-> "b"],
                                                         "spawned")} :
          processes = {r} \cup others
    /\ tool_calls = {}
    /\ tc_autoinc = 0
    /\ entries = <<>>
    /\ has_state = FALSE
    /\ torn = FALSE
    /\ lock = 0
    /\ has_lock_file = FALSE
    /\ legacy_tools = <<>>
    /\ has_tools = FALSE
    /\ state_bak = None
    /\ tools_bak = None
    /\ migrations = 0
    /\ issued = EmptyBag
    /\ next_id = 1
    /\ pc = [i \in Invs |-> "idle"]
    /\ loc = [i \in Invs |-> NoLoc]
    /\ nops = 0

SpecRows == InitRows /\ [][NextRows]_vars

(* a text of the row that row_to_entry parses does not parse *)
Malformed(r) ==
    \/ ParseUuid(r.id) = None
    \/ ParseCommand(r.command_json) = None
    \/ r.exit_kill_json # None /\ ParseExitKill(r.exit_kill_json[1]) = None
    \/ ParseRfc3339(r.created_at) = None

(* C26: a read that meets a row whose id, command, exit_kill or created_at
   does not parse returns an error: neither get_process_by_id of the row
   nor get_all_processes returns Ok. *)
MalformedRowIsAnError ==
    [][\A i \in Invs :
          /\ \A id \in Ids :
                (GetProcess(i, id)
                    /\ \E r \in processes : r.id = id /\ Malformed(r))
                        => loc'[i].res = "err"
          /\ (GetAllProcesses(i) /\ \E r \in processes : Malformed(r))
                => loc'[i].res = "err"]_vars

----------------------------------------------------------------------------
(* The lock around the mutations of state.json *)

(* the mutations of state.json, each of which may be terminated at any
   point *)
NextLock ==
    /\ \E i \in Invs :
        \/ AddEntry(i, "b", None)
        \/ \E id \in Ids : RemoveEntry(i, id)
        \/ \E id \in Ids : UpdateExit(i, id, 0)
        \/ AcquireLock(i)
        \/ Load(i)
        \/ Truncate(i)
        \/ Save(i)
        \/ Crash(i)
    /\ UNCHANGED issued

(* Initial state: state.json with no or one Process, complete or left
   incomplete by a save that was terminated *)
InitLock ==
    /\ processes = {}
    /\ tool_calls = {}
    /\ tc_autoinc = 0
    /\ \E n \in 0..1 : entries = SubSeq(TwoEntries, 1, n)
    /\ has_state = TRUE
    /\ torn \in BOOLEAN
    /\ lock = 0
    /\ has_lock_file = TRUE
    /\ legacy_tools = <<>>
    /\ has_tools = FALSE
    /\ state_bak = None
    /\ tools_bak = None
    /\ migrations = 0
    /\ issued = EmptyBag
    /\ next_id = 2
    /\ pc = [i \in Invs |-> "idle"]
    /\ loc = [i \in Invs |-> NoLoc]
    /\ nops = 0

SpecLock == InitLock /\ [][NextLock]_vars

(* the invocation is between lock_exclusive and the return of the closure *)
InClosure(p) == p \in {"load", "save", "write"}

(* C27: an invocation holds the lock from lock_exclusive to the return of
   its closure, through load, the mutation and save; the lock is free as
   soon as the closure has returned, with Ok or with the Err of load; and
   the lock is never held by an invocation outside its closure, so that
   the next lock_exclusive of any invocation succeeds. *)
LockHeldUntilClosureReturns ==
    [][\A i \in Invs :
          /\ InClosure(pc[i]) => lock = i
          /\ (InClosure(pc[i]) /\ ~InClosure(pc'[i])) => lock' = 0
          /\ (pc[i] = "load" /\ pc'[i] = "idle" /\ loc'[i].res = "load_err")
                => (LoadFails /\ LockAvailable')
          /\ lock' = i => InClosure(pc'[i])
      ]_vars

(* after the closure of one invocation failed with the Err of load,
   another invocation holds the lock *)
LockTakenAfterFailedLoad ==
    \E i, j \in Invs :
        /\ i # j
        /\ pc[i] = "idle"
        /\ loc[i].res = "load_err"
        /\ loc[i].op \in {"add_entry", "remove_entry", "update_exit_code"}
        /\ pc[j] = "load"
        /\ lock = j

----------------------------------------------------------------------------
(* Writing a Process and reading it back *)

(* the commands, exit policies, worktree paths and exit codes of the
   Processes written: a Claude command without and with an agent and a raw
   command; no policy, Any and Codes([0, 1]); a path of ASCII bytes and a
   path with a byte that is not UTF-8 *)
WrittenCommands == {Claude("x", None), Claude("x", Some("a")), Raw("ls")}
WrittenExitKills == {None, Some(ExitKillAny), Some(CodesOf(<<0, 1>>))}
WrittenPaths == {<<97, 98>>, <<97, 255>>}
WrittenEntries ==
    {[id |-> id, project |-> "tp", branch |-> "a", path |-> path,
      tmux_session |-> "dev", tmux_window |-> "w", command |-> c,
      exit_kill |-> ek, exit_code |-> x, created_at |-> Time(1, 0)] :
        id \in Ids, path \in WrittenPaths, c \in WrittenCommands,
        ek \in WrittenExitKills, x \in {None, Some(0)}}

NextRoundTrip ==
    /\ \E i \in Invs :
        \/ \E e \in WrittenEntries : Sequential /\ processes = {}
                                     /\ InsertProcess(i, e)
        \/ \E id \in Ids : GetProcess(i, id)
    /\ UNCHANGED issued

(* Initial state: an empty database *)
InitRoundTrip ==
    /\ processes = {}
    /\ tool_calls = {}
    /\ tc_autoinc = 0
    /\ entries = <<>>
    /\ has_state = FALSE
    /\ torn = FALSE
    /\ lock = 0
    /\ has_lock_file = FALSE
    /\ legacy_tools = <<>>
    /\ has_tools = FALSE
    /\ state_bak = None
    /\ tools_bak = None
    /\ migrations = 0
    /\ issued = EmptyBag
    /\ next_id = 1
    /\ pc = [i \in Invs |-> "idle"]
    /\ loc = [i \in Invs |-> NoLoc]
    /\ nops = 0

SpecRoundTrip == InitRoundTrip /\ [][NextRoundTrip]_vars

(* the Entry read equals the Entry written in the fields of the claim *)
SameProcess(read, written) ==
    /\ read.id = written.id
    /\ read.project = written.project
    /\ read.branch = written.branch
    /\ read.path = written.path
    /\ read.tmux_session = written.tmux_session
    /\ read.tmux_window = written.tmux_window
    /\ read.command = written.command
    /\ read.exit_kill = written.exit_kill
    /\ read.exit_code = written.exit_code

(* C28: get_process_by_id of the id of a Process that insert_process has
   written returns a Process equal to the one written in id, project,
   branch, directory, session, window, command, exit_kill and exit_code. *)
ReadBackEqualsWritten ==
    [][\A i, j \in Invs, id \in Ids :
          (/\ GetProcess(i, id)
           /\ loc[j].op = "insert_process"
           /\ loc[j].res = "ok"
           /\ loc[j].id = id)
          => (/\ loc'[i].entry # None
              /\ SameProcess(loc'[i].entry[1], loc[j].entry[1]))
      ]_vars

----------------------------------------------------------------------------
(* Listing the Processes *)

(* the Processes inserted: the k-th one inserted has the id k, a branch of
   its own and any of the instants as created_at, so that the order of
   insertion and the order of creation are independent *)
ListedEntry(id, t) ==
    [id |-> id, branch |-> IF id = 1 THEN "a" ELSE "b", created_at |-> t]

NextList ==
    /\ \E i \in Invs :
        \/ \E id \in Ids, t \in Times :
              /\ Sequential
              /\ id = Cardinality(processes) + 1
              /\ InsertProcess(i, ListedEntry(id, t))
        \/ GetAllProcesses(i)
    /\ UNCHANGED issued

(* Initial state: an empty database *)
InitList ==
    /\ processes = {}
    /\ tool_calls = {}
    /\ tc_autoinc = 0
    /\ entries = <<>>
    /\ has_state = FALSE
    /\ torn = FALSE
    /\ lock = 0
    /\ has_lock_file = FALSE
    /\ legacy_tools = <<>>
    /\ has_tools = FALSE
    /\ state_bak = None
    /\ tools_bak = None
    /\ migrations = 0
    /\ issued = EmptyBag
    /\ next_id = 1
    /\ pc = [i \in Invs |-> "idle"]
    /\ loc = [i \in Invs |-> NoLoc]
    /\ nops = 0

SpecList == InitList /\ [][NextList]_vars

(* the instant t1 is after the instant t2 *)
After(t1, t2) ==
    \/ t1.sec > t2.sec
    \/ t1.sec = t2.sec /\ t1.nanos > t2.nanos

(* C29: get_all_processes returns every stored Process exactly once, and
   no Process of the list was created after one that follows it, whatever
   the order in which the Processes were inserted. *)
ListIsCompleteAndChronological ==
    [][\A i \in Invs :
          GetAllProcesses(i) =>
            LET listed == loc'[i].listed IN
              /\ Len(listed) = Cardinality(processes)
              /\ \A r \in processes :
                    Cardinality({k \in DOMAIN listed : listed[k].id = r.id}) = 1
              /\ \A j, k \in DOMAIN listed :
                    j < k => ~After(listed[j].created_at, listed[k].created_at)
      ]_vars

(* the Process inserted second is listed first: it was created within the
   same second as the other one, at a time written with fewer digits *)
ListedAgainstInsertionOrder ==
    \E i \in Invs :
        /\ loc[i].op = "get_all_processes"
        /\ Len(loc[i].listed) = 2
        /\ loc[i].listed[1].id = 2
        /\ loc[i].listed[1].created_at = Time(1, 500000000)
        /\ loc[i].listed[2].id = 1
        /\ loc[i].listed[2].created_at = Time(1, 500001000)

----------------------------------------------------------------------------
(* The tool calls of one Process *)

NextCalls ==
    /\ \E i \in Invs :
        \/ \E id \in Ids : ReadNextSeq(i, id)
        \/ InsertToolCall(i)
        \/ \E id \in Ids : GetToolCalls(i, id)
    /\ UNCHANGED issued

(* Initial state: a database with the Processes 1 and 2, up to MaxCalls
   tool calls of Process 1 and, before them, none or one of Process 2 *)
InitCalls ==
    /\ processes = {ProcessRow([id |-> id, branch |-> IF id = 1 THEN "a" ELSE "b"],
                               "spawned") : id \in {1, 2}}
    /\ \E n \in 0..MaxCalls, m \in 0..1 :
          /\ tool_calls =
                {[id |-> k, process_id |-> 2, sequence |-> k, payload |-> 0] :
                    k \in 1..m}
                \cup {[id |-> m + k, process_id |-> 1, sequence |-> k,
                       payload |-> 0] : k \in 1..n}
          /\ tc_autoinc = m + n
    /\ entries = <<>>
    /\ has_state = FALSE
    /\ torn = FALSE
    /\ lock = 0
    /\ has_lock_file = FALSE
    /\ legacy_tools = <<>>
    /\ has_tools = FALSE
    /\ state_bak = None
    /\ tools_bak = None
    /\ migrations = 0
    /\ issued = EmptyBag
    /\ next_id = 1
    /\ pc = [i \in Invs |-> "idle"]
    /\ loc = [i \in Invs |-> NoLoc]
    /\ nops = 0

SpecCalls == InitCalls /\ [][NextCalls]_vars

(* C30: get_tool_calls_by_process(id) returns every stored ToolCall whose
   process_id is id exactly once and no ToolCall of another process, and
   no ToolCall of the list has a greater sequence than one that follows
   it. *)
CallsOfProcessInSequence ==
    [][\A i \in Invs, id \in Ids :
          GetToolCalls(i, id) =>
            LET calls == loc'[i].calls IN
              /\ \A k \in DOMAIN calls :
                    /\ calls[k].process_id = id
                    /\ \E r \in tool_calls : /\ r.id = calls[k].id
                                             /\ r.process_id = id
                                             /\ r.sequence = calls[k].sequence
              /\ \A r \in tool_calls :
                    r.process_id = id
                    => Cardinality({k \in DOMAIN calls : calls[k].id = r.id}) = 1
              /\ Len(calls) = Cardinality({r \in tool_calls : r.process_id = id})
              /\ \A j, k \in DOMAIN calls :
                    j < k => calls[j].sequence <= calls[k].sequence
      ]_vars

(* the three ToolCalls of Process 1 were returned in the order of their
   sequence while a ToolCall of Process 2 is stored *)
ThreeCallsListedBesideAnother ==
    \E i \in Invs :
        /\ loc[i].op = "get_tool_calls_by_process"
        /\ loc[i].id = 1
        /\ Len(loc[i].calls) = 3
        /\ loc[i].calls[1].sequence = 1
        /\ loc[i].calls[3].sequence = 3
        /\ \E r \in tool_calls : r.process_id = 2

----------------------------------------------------------------------------
(* The tool calls of all Processes, most recent first *)

(* the instants at which the stored tool calls were written: three within
   one second, with texts of different lengths, and one a second later *)
CallTimes == {Time(1, nanos) : nanos \in Nanos} \cup {Time(2, 0)}
HookTypes == {"pre", "post"}

(* one read of the database, which no step changes *)
NextTools ==
    /\ nops = 0
    /\ \E i \in Invs :
        \/ GetAllToolCalls(i)
        \/ \E hook_type \in {None} \cup {Some(h) : h \in HookTypes},
              limit \in {None} \cup {Some(n) : n \in 0..MaxCalls} :
                ToolsList(i, hook_type, limit)
    /\ UNCHANGED issued

(* Initial state: a database with the Processes 1 and 2 and up to
   MaxCalls + 1 tool calls, written in turn for Process 1 and Process 2 by
   insert_tool_call, each of either hook type and at any of the instants *)
InitTools ==
    /\ processes = {ProcessRow([id |-> id, branch |-> IF id = 1 THEN "a" ELSE "b"],
                               "spawned") : id \in {1, 2}}
    /\ \E n \in 0..(MaxCalls + 1) :
       \E hook \in [1..n -> HookTypes], at \in [1..n -> CallTimes] :
          /\ tool_calls =
                {[id |-> k, process_id |-> 2 - (k % 2),
                  sequence |-> (k + 1) \div 2, payload |-> 0,
                  hook_type |-> hook[k], timestamp |-> ToRfc3339(at[k])] :
                    k \in 1..n}
          /\ tc_autoinc = n
    /\ entries = <<>>
    /\ has_state = FALSE
    /\ torn = FALSE
    /\ lock = 0
    /\ has_lock_file = FALSE
    /\ legacy_tools = <<>>
    /\ has_tools = FALSE
    /\ state_bak = None
    /\ tools_bak = None
    /\ migrations = 0
    /\ issued = EmptyBag
    /\ next_id = 1
    /\ pc = [i \in Invs |-> "idle"]
    /\ loc = [i \in Invs |-> NoLoc]
    /\ nops = 0

SpecTools == InitTools /\ [][NextTools]_vars

(* the instant of the timestamp of a stored row *)
WrittenAt(r) == CHOOSE t \in Times : ToRfc3339(t) = r.timestamp

(* the stored rows that the listing with the hook type selects *)
Selected(hook_type) ==
    {r \in tool_calls : hook_type = None \/ r.hook_type = hook_type[1]}

(* C31: get_all_tool_calls returns every stored ToolCall, of whatever
   Process, exactly once, and no ToolCall of the list is older than one
   that follows it; hence the ToolCalls that the tools listing keeps under
   a limit are of its hook type, as many as the limit allows, and none of
   them is older than a ToolCall of that hook type that it drops. *)
AllCallsMostRecentFirst ==
    [][\A i \in Invs :
          /\ GetAllToolCalls(i) =>
               LET calls == loc'[i].calls IN
                 /\ Len(calls) = Cardinality(tool_calls)
                 /\ \A r \in tool_calls :
                       Cardinality({k \in DOMAIN calls :
                                       /\ calls[k].id = r.id
                                       /\ calls[k].process_id = r.process_id
                                       /\ calls[k].timestamp = WrittenAt(r)}) = 1
                 /\ \A j, k \in DOMAIN calls :
                       j < k => ~After(calls[k].timestamp, calls[j].timestamp)
          /\ (loc'[i] # loc[i] /\ loc'[i].cmd = "tools") =>
                 LET calls == loc'[i].calls
                     hook_type == loc'[i].hook_type
                     limit == loc'[i].limit
                     kept == {calls[k].id : k \in DOMAIN calls}
                     sel == Selected(hook_type)
                 IN
                   /\ kept \subseteq {r.id : r \in sel}
                   /\ Cardinality(kept) = Len(calls)
                   /\ Len(calls) = IF limit = None \/ limit[1] > Cardinality(sel)
                                   THEN Cardinality(sel) ELSE limit[1]
                   /\ \A r \in sel, k \in DOMAIN calls :
                         r.id \notin kept
                         => ~After(WrittenAt(r), calls[k].timestamp)
      ]_vars

(* a listing with the limit 2 kept the two most recent of three ToolCalls
   of two Processes: the one written first, a second after the others, and
   of the other two, written within one second, the later one *)
LimitKeptMostRecent ==
    \E i \in Invs :
        /\ loc[i].cmd = "tools"
        /\ Cardinality(tool_calls) = 3
        /\ Len(loc[i].calls) = 2
        /\ loc[i].calls[1].id = 1
        /\ loc[i].calls[1].timestamp = Time(2, 0)
        /\ loc[i].calls[2].id = 3
        /\ loc[i].calls[2].timestamp = Time(1, 500001000)
        /\ \E r \in tool_calls : r.id = 2 /\ r.timestamp = ToRfc3339(Time(1, 500000000))

----------------------------------------------------------------------------
(* cleanup: the dry run *)

(* state.json and the lock file, as the commands find them *)
Registry == <<entries, has_state, torn, has_lock_file>>

(* C32: the scan of cleanup, dry run or not, leaves the registry as it
   was; a cleanup with dry_run = true has returned after its scan and
   takes no further step, whatever it flagged; and a step that changes the
   entries of the registry is a step of a cleanup with dry_run = false. *)
DryRunLeavesRegistry ==
    [][/\ \A i \in Invs :
            Cleanup(i, loc'[i].paths, loc'[i].windows, loc'[i].dry_run) =>
                /\ UNCHANGED Registry
                /\ loc'[i].dry_run => pc'[i] = "idle" /\ loc'[i].res = "ok"
       /\ \A i \in Invs :
            (loc[i].cmd = "cleanup" /\ loc[i].dry_run) =>
                /\ pc[i] = "idle"
                /\ lock # i
       /\ entries' # entries =>
            \E i \in Invs : /\ loc[i].cmd = "cleanup"
                            /\ ~loc[i].dry_run
                            /\ loc[i].op = "remove_entry"
                            /\ pc[i] = "save"
      ]_vars

(* a dry run has flagged two entries and returned, and both are still in
   the registry *)
DryRunFlaggedTwo ==
    \E i \in Invs :
        /\ loc[i].cmd = "cleanup"
        /\ loc[i].dry_run
        /\ pc[i] = "idle"
        /\ loc[i].res = "ok"
        /\ Len(loc[i].stale) = 2
        /\ entries = loc[i].snapshot
        /\ \A k \in 1..2 : FindById(entries, loc[i].stale[k].id) # None

----------------------------------------------------------------------------
(* new: the exit-kill request *)

(* the values of --exit-kill: no flag, the flag without a value, and the
   flag with "any", "ANY", "0", "1", "0,1", "x" and "x,1" *)
FlagValues ==
    {None, Some(None)} \cup
    {Some(Some(s)) : s \in {<<"any">>, <<"ANY">>, <<"0">>, <<"1">>,
                            <<"0", "1">>, <<"x">>, <<"x", "1">>}}

(* one new after another for the branch "a", the run of the window each
   successful new creates, with any exit code *)
NextNew ==
    /\ \E i \in Invs :
        \/ \E value \in FlagValues, valid \in BOOLEAN :
              Sequential /\ New(i, "a", value, valid)
        \/ \E created \in BOOLEAN : NewAdd(i, created)
        \/ \E created \in BOOLEAN : NewWindow(i, created)
        \/ \E j \in Invs : Sequential /\ WindowRun(i, j)
        \/ \E c \in KillCodes : RunExit(i, c)
        \/ AcquireLock(i)
        \/ Load(i)
        \/ Truncate(i)
        \/ Save(i)
    /\ UNCHANGED issued

(* Initial state: no registry yet *)
InitNew ==
    /\ processes = {}
    /\ tool_calls = {}
    /\ tc_autoinc = 0
    /\ entries = <<>>
    /\ has_state = FALSE
    /\ torn = FALSE
    /\ lock = 0
    /\ has_lock_file = FALSE
    /\ legacy_tools = <<>>
    /\ has_tools = FALSE
    /\ state_bak = None
    /\ tools_bak = None
    /\ migrations = 0
    /\ issued = EmptyBag
    /\ next_id = 1
    /\ pc = [i \in Invs |-> "idle"]
    /\ loc = [i \in Invs |-> NoLoc]
    /\ nops = 0

SpecNew == InitNew /\ [][NextNew]_vars

(* the requests the claim compares: the flag without a value, and the flag
   with the value "0" *)
DefaultRequest == Some(None)
CodesZeroRequest == Some(Some(<<"0">>))

(* C33: when the command of a Process created with --exit-kill without a
   value terminates, run removes the Process if the exit code is 0 and
   records the exit code otherwise, which is also what it does for a
   Process created with --exit-kill 0: both carry the policy Codes([0]). *)
DefaultIsCodesZero ==
    [][\A i, j \in Invs, c \in KillCodes :
          (/\ i # j
           /\ RunExit(i, c)
           /\ loc[j].cmd = "new"
           /\ loc[j].entry[1].id = loc[i].id
           /\ loc[j].flag \in {DefaultRequest, CodesZeroRequest})
          => (/\ loc[i].entry[1].exit_kill = Some(CodesOf(<<0>>))
              /\ loc'[i].op = IF c = 0 THEN "remove_entry"
                              ELSE "update_exit_code")
      ]_vars

(* the command of a Process created with --exit-kill without a value has
   terminated with the exit code 0 and run has removed the Process *)
DefaultRequestTornDown ==
    \E i, j \in Invs :
        /\ i # j
        /\ loc[j].cmd = "new" /\ loc[j].flag = DefaultRequest
        /\ loc[j].res = "ok"
        /\ loc[i].cmd = "run" /\ loc[i].id = loc[j].entry[1].id
        /\ loc[i].op = "remove_entry" /\ loc[i].code = Some(0)
        /\ pc[i] = "idle" /\ loc[i].res = "ok"
        /\ FindById(entries, loc[i].id) = None

----------------------------------------------------------------------------
(* Two invocations open the store at once *)

(* open_and_init of any invocation at any time *)
NextConc ==
    /\ \E i \in Invs :
        \/ MigrateBegin(i)
        \/ MigrateStateJson(i)
        \/ MigrateToolsDb(i)
        \/ BackupLegacy(i)
        \/ MigrateDone(i)
    /\ UNCHANGED issued

(* Initial state: an empty database, a legacy state.json with one Process
   or two and a legacy tools.db with up to two records *)
InitConc ==
    /\ processes = {}
    /\ tool_calls = {}
    /\ tc_autoinc = 0
    /\ entries \in {es \in LegacyLists(2) : es # <<>> /\ DistinctIds(es)}
    /\ has_state = TRUE
    /\ torn = FALSE
    /\ lock = 0
    /\ has_lock_file \in BOOLEAN
    /\ legacy_tools \in LegacyLogs(2)
    /\ has_tools = TRUE
    /\ state_bak = None
    /\ tools_bak = None
    /\ migrations = 0
    /\ issued = EmptyBag
    /\ next_id = 1
    /\ pc = [i \in Invs |-> "idle"]
    /\ loc = [i \in Invs |-> NoLoc]
    /\ nops = 0

SpecConc == InitConc /\ [][NextConc]_vars

(* every legacy entry has yielded at most one Process *)
EntriesMigratedOnce ==
    \A id \in Ids : Cardinality({r \in processes : r.id = id}) <= 1

(* C34: whatever the interleaving of the opens, every legacy entry has
   yielded at most one Process, every record of the legacy tool-call log
   at most one ToolCall, and no two ToolCalls of a Process have the same
   sequence. *)
ConcurrentOpensMigrateOnce ==
    /\ EntriesMigratedOnce
    /\ \A k \in 1..MaxLegacyTools :
          Cardinality({r \in tool_calls : r.payload = k}) <= 1
    /\ \A r1, r2 \in tool_calls :
          (r1.process_id = r2.process_id /\ r1.sequence = r2.sequence)
          => r1 = r2

----------------------------------------------------------------------------
(* A removal against the exit code of run (src/src/state.rs,
   src/src/commands/run.rs, kill.rs, cleanup.rs) *)

(* what cleanup finds of the one Process: its directory and its window, each
   present or gone *)
Present == {{}, {1}}

(* run of the Process, kill of its branch and non-dry-run cleanups, started
   at any time and interleaved step by step *)
NextRace ==
    /\ \E i \in Invs :
        \/ RunStart(i, 1)
        \/ \E c \in KillCodes : RunExit(i, c)
        \/ Kill(i, "a")
        \/ \E torn_down \in BOOLEAN : KillRemove(i, torn_down)
        \/ \E paths \in Present, windows \in Present :
                Cleanup(i, paths, windows, FALSE)
        \/ CleanupRemove(i)
        \/ AcquireLock(i)
        \/ Load(i)
        \/ Truncate(i)
        \/ Save(i)
    /\ UNCHANGED issued

SpecRace == InitKill /\ [][NextRace]_vars

(* invocation i is a run that has recorded an exit code for the id *)
RecordedExit(i, id) ==
    /\ pc[i] = "idle"
    /\ loc[i].cmd = "run"
    /\ loc[i].op = "update_exit_code"
    /\ loc[i].id = id

(* invocation j is a kill or a cleanup that has called remove_entry(id) and
   has returned *)
RemovalDone(j, id) ==
    /\ pc[j] = "idle"
    /\ \/ loc[j].cmd = "kill" /\ loc[j].op = "remove_entry" /\ loc[j].id = id
       \/ /\ loc[j].cmd = "cleanup"
          /\ \E k \in 1..(loc[j].next - 1) :
                k \in DOMAIN loc[j].stale /\ loc[j].stale[k].id = id

(* C35: when a kill or a cleanup has removed a Process and a run has
   recorded the exit code of the same Process, in whatever order their
   steps were taken, both have returned Ok, state.json is complete and has no
   entry with the id *)
RemovalWinsOverExitCode ==
    \A i \in Invs, j \in Invs, id \in Ids :
        (i # j /\ RecordedExit(i, id) /\ RemovalDone(j, id))
            => /\ loc[i].res = "ok"
               /\ loc[j].res = "ok"
               /\ has_state /\ ~torn
               /\ FindById(entries, id) = None

(* the update of run waited for the lock that the removal of a kill held,
   and loaded the registry without the entry *)
LateExitCodeAfterKill ==
    \E i \in Invs, j \in Invs :
        /\ i # j
        /\ RecordedExit(i, 1)
        /\ loc[i].contended
        /\ loc[i].res = "ok"
        /\ RemovalDone(j, 1)
        /\ loc[j].cmd = "kill"
        /\ ~loc[j].contended
        /\ entries = <<>>

----------------------------------------------------------------------------
(* Referential integrity of tool_calls (src/src/db.rs) *)

NoOrphanToolCall ==
    \A r \in tool_calls : ProcessExists(processes, r.process_id)

(* C36: in every state of wortex.db every row of tool_calls has the id of a
   row of processes in process_id, under any interleaving of the statements
   of insert_tool_call, delete_process and insert_process; the INSERT of
   insert_tool_call for an id without a row of processes returns Err and
   leaves both tables and the AUTOINCREMENT counter as they were *)
ToolCallsHaveTheirProcess ==
    /\ NoOrphanToolCall
    /\ [][/\ NoOrphanToolCall'
          /\ \A i \in Invs :
                (InsertToolCall(i) /\ ~ProcessExists(processes, loc[i].id))
                    => /\ loc'[i].res = "err"
                       /\ UNCHANGED dbvars]_vars

(* an insert_tool_call stored its row between the two statements of a
   delete_process of the same Process: the DELETE of the row of processes
   failed, and the Process is still there with the new tool call *)
InsertBetweenTheDeletes ==
    \E i \in Invs, j \in Invs :
        /\ i # j
        /\ pc[i] = "idle" /\ pc[j] = "idle"
        /\ loc[i].op = "insert_tool_call" /\ loc[i].res = "ok"
        /\ loc[j].op = "delete_process" /\ loc[j].res = "err"
        /\ loc[j].id = loc[i].id
        /\ loc[j].removed > 0
        /\ ProcessExists(processes, loc[i].id)
        /\ Cardinality(ToolCallsOf(tool_calls, loc[i].id)) = 1

----------------------------------------------------------------------------
(* new against cleanup (src/src/commands/new.rs, run.rs, cleanup.rs) *)

(* the ids whose tmux window exists: those of the invocations of new that
   have returned from tmux::create_window with Ok *)
HasWindow ==
    {loc[j].id : j \in {k \in Invs : /\ loc[k].cmd = "new"
                                      /\ loc[k].op = "add_entry"
                                      /\ pc[k] = "idle"
                                      /\ loc[k].res = "ok"}}

(* the window runs __run <id> once *)
RunStarted == \E k \in Invs : loc[k].cmd = "run"

(* one new of the branch a on a machine without a registry, the run of its
   window, and cleanups started at any time by the other invocations; a
   cleanup finds every directory and the windows that exist *)
NextSpawn ==
    /\ \E i \in Invs :
        \/ \E valid \in BOOLEAN : nops = 0 /\ New(i, "a", None, valid)
        \/ \E created \in BOOLEAN : NewAdd(i, created)
        \/ \E created \in BOOLEAN : NewWindow(i, created)
        \/ \E j \in Invs : loc[i].cmd # "new" /\ ~RunStarted /\ WindowRun(i, j)
        \/ \E c \in ExitCodes : RunExit(i, c)
        \/ \E dry_run \in BOOLEAN :
                loc[i].cmd # "new" /\ Cleanup(i, Ids, HasWindow, dry_run)
        \/ CleanupRemove(i)
        \/ AcquireLock(i)
        \/ Load(i)
        \/ Truncate(i)
        \/ Save(i)
    /\ UNCHANGED issued

SpecSpawn == InitNew /\ [][NextSpawn]_vars

(* the reasons cleanup gave for the id, none when it did not flag it *)
ReasonsFor(stale, id) ==
    IF \E k \in DOMAIN stale : stale[k].id = id
    THEN stale[CHOOSE k \in DOMAIN stale : stale[k].id = id].reasons
    ELSE <<>>

(* C37: the run of the window that new has created finds the entry of new
   in the registry, unless its load fails on a state.json that another
   invocation is writing; and a cleanup that loads the registry after
   tmux::create_window has failed flags the entry, if it is still there,
   with "window missing" *)
RunOfNewFindsEntry ==
    [][\A i \in Invs :
          /\ \A j \in Invs :
                (WindowRun(i, j) /\ loc'[i].res # "load_err")
                    => loc'[i].entry # None
          /\ \A j \in Invs :
                (/\ loc[j].cmd = "new" /\ loc[j].res = "window_err"
                 /\ ~LoadFails
                 /\ FindById(LoadState, loc[j].id) # None
                 /\ Cleanup(i, loc'[i].paths, loc'[i].windows, loc'[i].dry_run))
                    => \E k \in DOMAIN ReasonsFor(loc'[i].stale, loc[j].id) :
                          ReasonsFor(loc'[i].stale, loc[j].id)[k] = "window missing"]_vars

----------------------------------------------------------------------------
(* cleanup against entries added meanwhile (src/src/commands/cleanup.rs,
   src/src/state.rs) *)

(* one cleanup that is not a dry run, with any windows present, and
   add_entry of other invocations at any time after its snapshot *)
NextSweep ==
    /\ \E i \in Invs :
        \/ \E windows \in SUBSET StaleIds :
                nops = 0 /\ Cleanup(i, StaleIds, windows, FALSE)
        \/ CleanupRemove(i)
        \/ \E b \in Branches : AddEntry(i, b, None)
        \/ AcquireLock(i)
        \/ Load(i)
        \/ Truncate(i)
        \/ Save(i)
    /\ UNCHANGED issued

SpecSweep == InitStale /\ [][NextSweep]_vars

(* the ids cleanup flagged in its snapshot *)
Flagged(i) == {loc[i].stale[k].id : k \in DOMAIN loc[i].stale}

SnapshotIds(i) == {loc[i].snapshot[k].id : k \in DOMAIN loc[i].snapshot}

CleanupDone(i) ==
    /\ pc[i] = "idle"
    /\ loc[i].cmd = "cleanup"
    /\ loc[i].res = "ok"
    /\ ~loc[i].dry_run

Added(j) ==
    /\ pc[j] = "idle"
    /\ loc[j].op = "add_entry"
    /\ loc[j].res = "ok"

(* C38: every write of state.json by a cleanup that is not a dry run
   removes the entries of one id flagged in its snapshot from the list as
   it is at that moment and changes nothing else; when the cleanup has
   returned, every entry that another invocation has added and that was not
   in the snapshot is in the registry, every unflagged entry of the
   snapshot is in the registry as it was, and no flagged one is *)
CleanupRemovesOnlyFlagged ==
    [][\A i \in Invs :
          /\ (Truncate(i) /\ loc[i].cmd = "cleanup")
                => /\ loc[i].id \in Flagged(i)
                   /\ entries' = RetainOthers(entries, loc[i].id)
          /\ CleanupDone(i)'
                => /\ \A j \in Invs :
                        (Added(j)' /\ loc'[j].id \notin SnapshotIds(i)')
                            => FindById(entries', loc'[j].id) = loc'[j].entry
                   /\ \A k \in DOMAIN loc'[i].snapshot :
                        IF loc'[i].snapshot[k].id \in Flagged(i)'
                        THEN FindById(entries', loc'[i].snapshot[k].id) = None
                        ELSE \E m \in DOMAIN entries' :
                                entries'[m] = loc'[i].snapshot[k]]_vars

(* an add_entry held the lock when the cleanup came to its removal: the
   cleanup has removed its flagged entry, and the entry added after its
   snapshot is in the registry *)
AddedDuringCleanupKept ==
    \E i \in Invs, j \in Invs :
        /\ CleanupDone(i)
        /\ Flagged(i) # {}
        /\ loc[i].contended
        /\ Added(j)
        /\ ~loc[j].contended
        /\ loc[j].id \notin SnapshotIds(i)
        /\ FindById(entries, loc[j].id) = loc[j].entry

----------------------------------------------------------------------------
(* kill: the registry entry goes last (src/src/commands/kill.rs) *)

(* kills of the branch of the one Process and of a branch without an entry,
   each teardown succeeding or failing *)
NextTeardown ==
    /\ \E i \in Invs :
        \/ \E b \in Branches : Kill(i, b)
        \/ \E torn_down \in BOOLEAN : KillRemove(i, torn_down)
        \/ AcquireLock(i)
        \/ Load(i)
        \/ Truncate(i)
        \/ Save(i)
    /\ UNCHANGED issued

SpecTeardown == InitKill /\ [][NextTeardown]_vars

(* C39: a kill that finds no entry for the branch, and a kill whose
   teardown of the window, the worktree or the branch fails, return an
   error in a step that leaves state.json and state.lock as they are; the
   registry is written only by a kill whose teardown succeeded, in its
   remove_entry, after which the kill returns Ok *)
KillRemovesEntryLast ==
    [][\A i \in Invs :
          /\ \A b \in Branches :
                (Kill(i, b) /\ loc'[i].entry = None)
                    => /\ pc'[i] = "idle"
                       /\ loc'[i].res \in {"err", "load_err"}
                       /\ UNCHANGED Registry
          /\ KillRemove(i, FALSE)
                => /\ pc'[i] = "idle"
                   /\ loc'[i].res = "err"
                   /\ UNCHANGED Registry
          /\ (Truncate(i) \/ Save(i))
                => loc[i].cmd = "kill" /\ loc[i].op = "remove_entry"
          /\ (Save(i) /\ loc[i].cmd = "kill")
                => pc'[i] = "idle" /\ loc'[i].res = "ok"
          /\ (entries' # entries)
                => \E j \in Invs : Truncate(j) /\ loc[j].op = "remove_entry"]_vars

(* a kill found the entry, failed in its teardown and returned the error;
   the entry is in the registry as it was found *)
FailedTeardownKeptEntry ==
    \E i \in Invs :
        /\ pc[i] = "idle"
        /\ loc[i].cmd = "kill"
        /\ loc[i].res = "err"
        /\ loc[i].entry # None
        /\ loc[i].op = "none"
        /\ FindById(entries, loc[i].id) = loc[i].entry
        /\ ~torn

----------------------------------------------------------------------------
(* One entry per branch (src/src/commands/new.rs) *)

(* new, run, kill and cleanup on a machine without a registry, each
   invocation running to its end before the next one starts *)
NextOneAtATime ==
    /\ \E i \in Invs :
        \/ \E b \in Branches, valid \in BOOLEAN :
              Sequential /\ New(i, b, None, valid)
        \/ \E created \in BOOLEAN : NewAdd(i, created)
        \/ \E created \in BOOLEAN : NewWindow(i, created)
        \/ \E id \in Ids : Sequential /\ RunStart(i, id)
        \/ \E c \in ExitCodes : RunExit(i, c)
        \/ \E b \in Branches : Sequential /\ Kill(i, b)
        \/ \E torn_down \in BOOLEAN : KillRemove(i, torn_down)
        \/ \E paths \in SUBSET Ids, windows \in SUBSET Ids, dry_run \in BOOLEAN :
              Sequential /\ Cleanup(i, paths, windows, dry_run)
        \/ CleanupRemove(i)
        \/ AcquireLock(i)
        \/ Load(i)
        \/ Truncate(i)
        \/ Save(i)
    /\ UNCHANGED issued

SpecOneAtATime == InitNew /\ [][NextOneAtATime]_vars

UniqueBranches ==
    \A k \in DOMAIN entries, m \in DOMAIN entries :
        entries[k].branch = entries[m].branch => k = m

(* C40: a new with valid arguments for a branch that has an entry in the
   registry returns EntryExists in a step that leaves state.json and
   state.lock as they are; and with invocations that do not overlap no two
   entries of the registry ever have the same branch *)
NewKeepsBranchesUnique ==
    /\ UniqueBranches
    /\ [][/\ UniqueBranches'
          /\ \A i \in Invs, b \in Branches :
                (/\ New(i, b, None, TRUE)
                 /\ ~LoadFails
                 /\ FindByBranch(LoadState, b) # None)
                    => /\ loc'[i].res = "entry_exists"
                       /\ pc'[i] = "idle"
                       /\ UNCHANGED Registry]_vars

(* a second new for the branch of an entry returned EntryExists; the
   registry holds the entry of the first new and nothing else *)
SecondNewRejected ==
    \E i \in Invs :
        /\ pc[i] = "idle"
        /\ loc[i].cmd = "new"
        /\ loc[i].res = "entry_exists"
        /\ Len(entries) = 1
        /\ entries[1].branch = loc[i].entry[1].branch

====
